---------------------------- MODULE Spec2Model ----------------------------
(***************************************************************************)
(* Model of the Covasant booking agents: the router ("client") agent's     *)
(* three HTTP tools with their two process-wide caches, and the specialist *)
(* service's session-start and query endpoints.                            *)
(*                                                                         *)
(* Text is a sequence of tokens: an f-string is the concatenation (\o) of  *)
(* its literal pieces and the texts it interpolates, and                   *)
(* s.startswith("Error:") looks at the first token.                        *)
(***************************************************************************)
EXTENDS Integers, Sequences, FiniteSets, TLC

(***************************************************************************)
(* Bounds of the model.                                                    *)
(***************************************************************************)
MaxCalls == 3

(***************************************************************************)
(* Python values.                                                          *)
(***************************************************************************)
\* Python's None (what dict.get yields for an absent key or a JSON null):
\* a reserved value that no input text equals.
None == <<"<None>">>

EmptyStr == <<>>

\* bool(v) of an Optional[str]: None and "" are falsy.
Truthy(v) == v # None /\ v # EmptyStr

\* str.startswith("Error:")
StartsWithError(s) == Len(s) > 0 /\ s[1] = "Error:"

(***************************************************************************)
(* JSON bodies.  A dict is its .get view: every key of Fields maps to its  *)
(* text, or to None when the key is absent or null.                        *)
(***************************************************************************)
Fields ==
    {"agent_name", "version", "endpoints.execute_task.url", "session_id",
     "final_agent_utterance", "error_message", "detail", "error"}

FieldOrder ==
    <<"agent_name", "version", "endpoints.execute_task.url", "session_id",
      "final_agent_utterance", "error_message", "detail", "error">>

JsonDict(a) ==
    [json |-> TRUE, dict |-> TRUE,
     f |-> [k \in Fields |-> IF k \in DOMAIN a THEN a[k] ELSE None]]

\* a JSON document that is no object (a list, a string, a number)
JsonNonDict == [json |-> TRUE, dict |-> FALSE, f |-> [k \in Fields |-> None]]

\* a body that is no JSON at all (an HTML error page, an empty body)
NonJson == [json |-> FALSE, dict |-> FALSE, f |-> [k \in Fields |-> None]]

RECURSIVE FieldsText(_, _)
FieldsText(body, i) ==
    IF i > Len(FieldOrder) THEN <<>>
    ELSE (IF body.f[FieldOrder[i]] = None THEN <<>>
          ELSE <<FieldOrder[i], ":">> \o body.f[FieldOrder[i]] \o <<",">>)
         \o FieldsText(body, i + 1)

\* str(value) / json.dumps(value) of a parsed JSON document
JsonText(body) ==
    IF body.dict THEN <<"{">> \o FieldsText(body, 1) \o <<"}">> ELSE <<"[]">>

(***************************************************************************)
(* The outbound HTTP call (httpx.AsyncClient.get/post, raise_for_status,   *)
(* response.json) and what it raises.                                      *)
(***************************************************************************)
StatusText(code) ==
    CASE code = 200 -> <<"200">>
      [] code = 404 -> <<"404">>
      [] code = 500 -> <<"500">>

\* one outcome of a request: the transport's exception, or a response
Timeout == [exc |-> "TimeoutException", status |-> 0, body |-> NonJson]
ConnectError == [exc |-> "ConnectError", status |-> 0, body |-> NonJson]
UnsupportedProtocol == [exc |-> "UnsupportedProtocol", status |-> 0, body |-> NonJson]
Http(code, body) == [exc |-> "none", status |-> code, body |-> body]

\* response.raise_for_status(): raises for a status outside 2xx
RaisesForStatus(resp) == ~(200 <= resp.status /\ resp.status <= 299)

\* the exception raised by await client.get/post; raise_for_status(); json(),
\* "none" when a parsed JSON document comes back
HttpException(resp) ==
    IF resp.exc # "none" THEN resp.exc
    ELSE IF RaisesForStatus(resp) THEN "HTTPStatusError"
    ELSE IF ~resp.body.json THEN "JSONDecodeError"
    ELSE "none"

\* str(e)
ExcText(exc) ==
    CASE exc = "TimeoutException" -> <<"timed out">>
      [] exc = "ConnectError" -> <<"All connection attempts failed">>
      [] exc = "UnsupportedProtocol" -> <<"Request URL is missing a protocol">>
      [] exc = "HTTPStatusError" -> <<"Client or server error response">>
      [] exc = "JSONDecodeError" -> <<"Expecting value">>
      [] exc = "AttributeError" -> <<"object has no attribute 'get'">>

ExceptionKinds ==
    {"TimeoutException", "ConnectError", "UnsupportedProtocol", "HTTPStatusError",
     "JSONDecodeError", "AttributeError"}

\* a faulty variant: only httpx's own errors are caught (except httpx.HTTPError)
ExceptException_HttpxOnly(exc) ==
    exc \in {"TimeoutException", "ConnectError", "UnsupportedProtocol",
             "HTTPStatusError"}

\* except Exception as e: catches every exception the calls above raise
ExceptException(exc) == exc \in ExceptionKinds

\* except httpx.HTTPStatusError as e:
ExceptHTTPStatusError(exc) == exc = "HTTPStatusError"

NoRequest == <<>>

\* a request without a JSON body (the GET of a card)
NoBody == [agent_name |-> None, query |-> None]

Request(method, url, body, session) ==
    [method |-> method, url |-> url, body |-> body, session |-> session]


(***************************************************************************)
(* The router agent's tools.  Three modules define them:                   *)
(*   client_booking_agent/agent.py                       (the names below) *)
(*   booking_agent/client_booking_agent/agent.py         (suffix _ba)      *)
(*   booking_agent/client_booking_agent/client_agent.py  (suffix _ca)      *)
(* A suffixed definition exists only where that module's code differs.     *)
(* Each tool is the function of its arguments, the cache it reads and the  *)
(* outcome of its one outbound call; it yields the value returned (card or *)
(* text), the exception that escapes ("none" if none), the cache as it     *)
(* leaves it and the requests it issued.                                   *)
(***************************************************************************)
RouterModules ==
    {"client_booking_agent/agent.py",
     "booking_agent/client_booking_agent/agent.py",
     "booking_agent/client_booking_agent/client_agent.py"}

\* {"error": msg}
ErrorRecord(msg) == JsonDict([error |-> msg])

CardUrl(agent_discovery_base_url) ==
    agent_discovery_base_url \o <<"/.well-known/agent-card">>

CardError(agent_discovery_base_url, exc) ==
    ErrorRecord(<<"Could not fetch card from">> \o agent_discovery_base_url
                \o <<":">> \o ExcText(exc))

CardResult(card, raised, cards, reqs) ==
    [card |-> card, text |-> None, raised |-> raised, cards |-> cards,
     reqs |-> reqs]

\* the try block of fetch_agent_card after the GET came back with a JSON
\* document: store it, log card.get('agent_name'), return it
StoreLogReturnCard(cache, url, card, reqs) ==
    LET stored == [u \in DOMAIN cache \cup {url} |->
                      IF u = url THEN card ELSE cache[u]]
    IN  IF ~card.dict
        THEN \* card.get raises AttributeError after the cache was written
             IF ExceptException("AttributeError")
             THEN CardResult(CardError(url, "AttributeError"), "none", stored, reqs)
             ELSE CardResult(NonJson, "AttributeError", stored, reqs)
        ELSE CardResult(card, "none", stored, reqs)

\* the same without the log line (booking_agent/client_booking_agent/agent.py)
StoreReturnCard_ba(cache, url, card, reqs) ==
    LET stored == [u \in DOMAIN cache \cup {url} |->
                      IF u = url THEN card ELSE cache[u]]
    IN  CardResult(card, "none", stored, reqs)

\* a faulty variant: the cache is never consulted
CardCacheHit_Skipped(cache, url) == FALSE

\* if agent_discovery_base_url in AGENT_CARDS_CACHE
CardCacheHit(cache, url) == url \in DOMAIN cache

\* the GET and what follows it; `cache` is the cache when the GET returns
FetchCardAttempt(cache, url, resp) ==
    LET reqs == <<Request("GET", CardUrl(url), NoBody, None)>>
        exc == HttpException(resp)
    IN  IF exc # "none"
        THEN IF ExceptException(exc)
             THEN CardResult(CardError(url, exc), "none", cache, reqs)
             ELSE CardResult(NonJson, exc, cache, reqs)
        ELSE StoreLogReturnCard(cache, url, resp.body, reqs)

FetchCardAttempt_ba(cache, url, resp) ==
    LET reqs == <<Request("GET", CardUrl(url), NoBody, None)>>
        exc == HttpException(resp)
    IN  IF exc # "none"
        THEN IF ExceptException(exc)
             THEN CardResult(CardError(url, exc), "none", cache, reqs)
             ELSE CardResult(NonJson, exc, cache, reqs)
        ELSE StoreReturnCard_ba(cache, url, resp.body, reqs)

fetch_agent_card(cache, url, resp) ==
    IF CardCacheHit(cache, url)
    THEN CardResult(cache[url], "none", cache, NoRequest)
    ELSE FetchCardAttempt(cache, url, resp)

fetch_agent_card_ba(cache, url, resp) ==
    IF CardCacheHit(cache, url)
    THEN CardResult(cache[url], "none", cache, NoRequest)
    ELSE FetchCardAttempt_ba(cache, url, resp)


(***************************************************************************)
(* start_session_with_specialist                                           *)
(***************************************************************************)
TextResult(text, raised, sessions, reqs) ==
    [card |-> NonJson, text |-> text, raised |-> raised, sessions |-> sessions,
     reqs |-> reqs]

StartSessionUrl(specialist_base_api_url) ==
    specialist_base_api_url \o <<"/start_agent_interaction/">>

StartPayload(specialist_agent_name) ==
    [agent_name |-> specialist_agent_name, query |-> None]

BaseUrlMissingMsg ==
    <<"Error:", "specialist_base_api_url was not provided to the",
      "start_session_with_specialist tool.">>

NoSessionIdMsg(name, response_data) ==
    <<"Error:", "Could not get session_id from">> \o name
    \o <<". Response:">> \o JsonText(response_data)

StartFailedMsg(name, exc) ==
    <<"Error:", "Failed to start session with">> \o name \o <<":">> \o ExcText(exc)

\* SPECIALIST_SESSIONS_CACHE[name] = value
Put(cache, key, value) ==
    [k \in DOMAIN cache \cup {key} |-> IF k = key THEN value ELSE cache[k]]

\* a faulty variant: the cached session is never reused
UsesCachedSession_Skipped(cache, name) == FALSE

\* if specialist_agent_name in SPECIALIST_SESSIONS_CACHE and, inside it,
\* if not cached_session_id.startswith("Error:")
UsesCachedSession(cache, name) ==
    name \in DOMAIN cache /\ ~StartsWithError(cache[name])

\* the cache after a failed attempt: the error text is stored under the name
SessionsAfterError(cache, name, error_msg) == Put(cache, name, error_msg)

\* the try block and its except clause
StartSessionAttempt(cache, name, base, resp) ==
    LET url == StartSessionUrl(base)
        reqs == <<Request("POST", url, StartPayload(name), None)>>
        out == resp
        exc == IF HttpException(out) # "none" THEN HttpException(out)
               ELSE IF ~out.body.dict THEN "AttributeError"
               ELSE "none"
        session_id == out.body.f["session_id"]
    IN  IF exc # "none"
        THEN IF ExceptException(exc)
             THEN TextResult(StartFailedMsg(name, exc), "none",
                             SessionsAfterError(cache, name, StartFailedMsg(name, exc)),
                             reqs)
             ELSE TextResult(None, exc, cache, reqs)
        ELSE IF Truthy(session_id)
        THEN TextResult(session_id, "none", Put(cache, name, session_id), reqs)
        ELSE TextResult(NoSessionIdMsg(name, out.body), "none",
                        SessionsAfterError(cache, name, NoSessionIdMsg(name, out.body)),
                        reqs)

start_session_with_specialist(cache, name, base, resp) ==
    IF ~Truthy(base)
    THEN TextResult(BaseUrlMissingMsg, "none", cache, NoRequest)
    ELSE IF UsesCachedSession(cache, name)
    THEN TextResult(cache[name], "none", cache, NoRequest)
    ELSE StartSessionAttempt(cache, name, base, resp)

\* client_agent.py: no base-url guard, whatever is cached is returned, and an
\* error is returned without being stored
StartSessionAttempt_ca(cache, name, base, resp) ==
    LET url == StartSessionUrl(base)
        reqs == <<Request("POST", url, StartPayload(name), None)>>
        out == resp
        exc == IF HttpException(out) # "none" THEN HttpException(out)
               ELSE IF ~out.body.dict THEN "AttributeError"
               ELSE "none"
        session_id == out.body.f["session_id"]
    IN  IF exc # "none"
        THEN IF ExceptException(exc)
             THEN TextResult(StartFailedMsg(name, exc), "none", cache, reqs)
             ELSE TextResult(None, exc, cache, reqs)
        ELSE IF Truthy(session_id)
        THEN TextResult(session_id, "none", Put(cache, name, session_id), reqs)
        ELSE TextResult(NoSessionIdMsg(name, out.body), "none", cache, reqs)

start_session_with_specialist_ca(cache, name, base, resp) ==
    IF name \in DOMAIN cache
    THEN TextResult(cache[name], "none", cache, NoRequest)
    ELSE StartSessionAttempt_ca(cache, name, base, resp)

(***************************************************************************)
(* delegate_task_with_session                                              *)
(***************************************************************************)
CannotDelegateMsg(specialist_session_id) ==
    <<"Cannot delegate:", "Previous step (start_session_with_specialist) failed:",
      "(">> \o specialist_session_id \o <<")">>

ErrorFromMsg(target_agent_name, error_message) ==
    <<"Error from">> \o target_agent_name \o <<":">> \o error_message

UnexpectedMsg(target_agent_name, response_data) ==
    <<"Unexpected response structure from">> \o target_agent_name \o <<":">>
    \o JsonText(response_data)

NoDetails == <<"No additional error details in response.">>

\* error_body: e.response.json() when the error response parses, else the default
ErrorBody(resp) == IF resp.body.json THEN JsonText(resp.body) ELSE NoDetails

HttpErrorMsg(target_agent_name, resp) ==
    <<"Failed to delegate to">> \o target_agent_name
    \o <<"(with session). HTTP Error:">> \o StatusText(resp.status)
    \o <<". Details:">> \o ErrorBody(resp)

GeneralErrorMsg(target_agent_name, exc) ==
    <<"Failed to delegate to">> \o target_agent_name
    \o <<"(with session). Error:">> \o ExcText(exc)

\* the header the POST carries
SessionHeader(specialist_session_id) == specialist_session_id

\* a faulty variant: the error_message branch is tested first
DelegateReply_ErrorFirst(target_agent_name, response_data) ==
    IF Truthy(response_data.f["error_message"])
    THEN <<"Error from">> \o target_agent_name \o <<":">>
         \o response_data.f["error_message"]
    ELSE IF Truthy(response_data.f["final_agent_utterance"])
    THEN response_data.f["final_agent_utterance"]
    ELSE <<"Unexpected response structure from">> \o target_agent_name

\* what is returned for a parsed 2xx JSON object
DelegateReply(target_agent_name, response_data) ==
    IF Truthy(response_data.f["final_agent_utterance"])
    THEN response_data.f["final_agent_utterance"]
    ELSE IF Truthy(response_data.f["error_message"])
    THEN ErrorFromMsg(target_agent_name, response_data.f["error_message"])
    ELSE UnexpectedMsg(target_agent_name, response_data)

\* the try block with its two except clauses
DelegatePost(target_agent_name, execute_url, specialist_session_id, payload, resp) ==
    LET reqs == <<Request("POST", execute_url, payload,
                          SessionHeader(specialist_session_id))>>
        out == resp
        exc == IF HttpException(out) # "none" THEN HttpException(out)
               ELSE IF ~out.body.dict THEN "AttributeError"
               ELSE "none"
    IN  IF exc = "none"
        THEN TextResult(DelegateReply(target_agent_name, out.body), "none", <<>>, reqs)
        ELSE IF ExceptHTTPStatusError(exc)
        THEN TextResult(HttpErrorMsg(target_agent_name, out), "none", <<>>, reqs)
        ELSE IF ExceptException(exc)
        THEN TextResult(GeneralErrorMsg(target_agent_name, exc), "none", <<>>, reqs)
        ELSE TextResult(None, exc, <<>>, reqs)

\* if specialist_session_id.startswith("Error:")
RefusesSession(specialist_session_id) == StartsWithError(specialist_session_id)

delegate_task_with_session(target_agent_name, execute_url, session_id, payload, resp) ==
    IF RefusesSession(session_id)
    THEN TextResult(CannotDelegateMsg(session_id), "none", <<>>, NoRequest)
    ELSE DelegatePost(target_agent_name, execute_url, session_id, payload, resp)

\* client_agent.py: the POST is made whatever the session id is
delegate_task_with_session_ca(target_agent_name, execute_url, session_id, payload, resp) ==
    DelegatePost(target_agent_name, execute_url, session_id, payload, resp)


(***************************************************************************)
(* Which module's tools the deployed router agent carries                  *)
(* (tools=[fetch_agent_card, start_session_with_specialist,                *)
(* delegate_task_with_session] of the module's Agent).                     *)
(***************************************************************************)
RouterFetch(m, cache, url, resp) ==
    IF m = "booking_agent/client_booking_agent/agent.py"
    THEN fetch_agent_card_ba(cache, url, resp)
    ELSE fetch_agent_card(cache, url, resp)

RouterStart(m, cache, name, base, resp) ==
    IF m = "booking_agent/client_booking_agent/client_agent.py"
    THEN start_session_with_specialist_ca(cache, name, base, resp)
    ELSE start_session_with_specialist(cache, name, base, resp)

\* the part of a tool that runs once its outbound call has returned
RouterFetchAttempt(m, cache, url, resp) ==
    IF m = "booking_agent/client_booking_agent/agent.py"
    THEN FetchCardAttempt_ba(cache, url, resp)
    ELSE FetchCardAttempt(cache, url, resp)

RouterStartAttempt(m, cache, name, base, resp) ==
    IF m = "booking_agent/client_booking_agent/client_agent.py"
    THEN StartSessionAttempt_ca(cache, name, base, resp)
    ELSE StartSessionAttempt(cache, name, base, resp)

RouterDelegate(m, name, url, sid, payload, resp) ==
    IF m = "booking_agent/client_booking_agent/client_agent.py"
    THEN delegate_task_with_session_ca(name, url, sid, payload, resp)
    ELSE delegate_task_with_session(name, url, sid, payload, resp)

(***************************************************************************)
(* The router's environment: the arguments its language model passes to    *)
(* the tools and the outcomes of the outbound calls.                       *)
(***************************************************************************)
MovieDiscoveryUrl == <<"http://", "localhost:8000/movie_booking_agent">>
BusDiscoveryUrl == <<"http://", "localhost:8000/bus_booking_agent">>

\* SPECIALIST_AGENT_DISCOVERY_BASE_URLS
DiscoveryUrls == {MovieDiscoveryUrl, BusDiscoveryUrl}

SpecialistNames == {<<"movie_booking_agent">>, <<"bus_booking_agent">>}

\* MAIN_API_SERVER_BASE_URL as interpolated into the instruction: set, or unset
BaseUrls == {<<"http://", "localhost:8000">>, EmptyStr}

ExecuteUrl(name) == <<"http://", "localhost:8000/">> \o name \o <<"/query">>

\* session ids as the specialist service allocates them (opaque, never
\* beginning with "Error:")
SessionIds == {<<"sid-1">>, <<"sid-2">>}

Payloads == {[agent_name |-> None, query |-> <<"book two seats to Pune">>]}

CardOf(url, version) ==
    JsonDict([agent_name |-> IF url = MovieDiscoveryUrl THEN <<"movie_booking_agent">>
                             ELSE <<"bus_booking_agent">>,
              version |-> version])

CardResponses(url) ==
    {Timeout, ConnectError, Http(500, NonJson), Http(200, NonJson), Http(200, JsonNonDict)}
    \cup {Http(200, CardOf(url, v)) : v \in {<<"1.0.0">>, <<"1.0.1">>}}

\* httpx refuses a URL without a scheme before anything is sent
OutcomesAt(url, responses) ==
    IF Len(url) > 0 /\ url[1] \in {"http://", "https://"} THEN responses
    ELSE {UnsupportedProtocol}

StartResponses ==
    {ConnectError, Http(404, NonJson), Http(200, NonJson), Http(200, JsonNonDict),
     Http(200, JsonDict([detail |-> <<"starting">>]))}
    \cup {Http(200, JsonDict([session_id |-> s])) : s \in SessionIds}

Utterance == <<"Two seats W1, W2 are held.">>
SpecialistError == <<"ADK Session ID not found">>

DelegateResponses ==
    {Timeout, Http(500, NonJson), Http(500, JsonDict([detail |-> <<"boom">>])),
     Http(200, NonJson), Http(200, JsonNonDict),
     Http(200, JsonDict([final_agent_utterance |-> Utterance])),
     Http(200, JsonDict([error_message |-> SpecialistError])),
     Http(200, JsonDict([final_agent_utterance |-> Utterance,
                         error_message |-> SpecialistError])),
     Http(200, JsonDict([final_agent_utterance |-> EmptyStr]))}

(***************************************************************************)
(* The specialist service.  Two modules define it:                         *)
(*   main_api.py                      (the names below)                    *)
(*   booking_agent/agents/main_api.py (suffix _bam where the code differs) *)
(***************************************************************************)
MaxSessions == 2
MaxRequests == 4
MaxEvents == 2

ApiModules == {"main_api.py", "booking_agent/agents/main_api.py"}

API_DEFAULT_USER_ID == <<"user_1">>

\* AGENT_MODULE_PATHS: the configured agent names
AGENT_MODULE_PATHS == {<<"movie_booking_agent">>, <<"bus_booking_agent">>}

AGENT_MODULE_PATHS_bam == {<<"movie_ticket_agent">>, <<"bus_booking_agent">>}

ConfiguredAgents(api) ==
    IF api = "main_api.py" THEN AGENT_MODULE_PATHS ELSE AGENT_MODULE_PATHS_bam

\* the agent names a request may carry
AgentNames == AGENT_MODULE_PATHS \cup AGENT_MODULE_PATHS_bam

\* what importing a configured agent module gives: a root_agent, an
\* ImportError, or a module without a usable root_agent
ModuleStates == {"ok", "ImportError", "AttributeError"}

(***************************************************************************)
(* The session store (google.adk DatabaseSessionService): sessions are     *)
(* keyed by (app_name, user_id, id); an id is allocated once.              *)
(***************************************************************************)
SessionIdOf(n) == <<"session-" \o ToString(n)>>

SessionKey(app_name, user_id, session_id) ==
    [app_name |-> app_name, user_id |-> user_id, id |-> session_id]

\* create_session(app_name, user_id): a new session with an empty history
create_session(store, key) == store \cup {[key |-> key, turns |-> 0]}

\* get_session(session_id, user_id, app_name): the session, none if absent
get_session(store, key) == {x \in store : x.key = key}

\* the runner appends the turn to the session it runs in
append_turn(store, key) ==
    {IF x.key = key THEN [x EXCEPT !.turns = @ + 1] ELSE x : x \in store}

(***************************************************************************)
(* The agent runtime's event stream for one turn, and the turn runner.     *)
(***************************************************************************)
Event(role, parts, err) == [role |-> role, parts |-> parts, err |-> err]

EventKinds ==
    {Event("model", <<<<"Searching buses...">>>>, None),
     Event("model", <<<<"Looking.">>, <<"Your booking is confirmed.">>>>, None),
     Event("model", <<EmptyStr>>, None),
     Event("user", <<<<"tool result">>>>, None),
     Event("model", <<>>, <<"RESOURCE_EXHAUSTED">>),
     Event("model", <<<<"Partial answer">>>>, <<"MALFORMED_FUNCTION_CALL">>)}

EventSeqs == UNION {[1..n -> EventKinds] : n \in 0..MaxEvents}

\* a stream: the events it yields, and whether it raises after the last one
Streams == [events : EventSeqs, raises : BOOLEAN]

NoStream == [events |-> <<>>, raises |-> FALSE]

RuntimeCause == <<"Session not found or model call failed">>

\* what a turn runner hands back: the returned dict, how many events it took
\* from the stream, how often it started the runtime, and whether it raised
\* instead of returning
TurnReturn(utterance, error, consumed, runs) ==
    [final_utterance |-> utterance, error |-> error, consumed |-> consumed,
     runs |-> runs, raised |-> FALSE]

\* a faulty variant: the first non-empty text is kept
LastPartText_FirstWins(parts, i, utterance) ==
    IF utterance # None THEN utterance
    ELSE IF \E j \in 1..Len(parts) : Truthy(parts[j])
         THEN parts[CHOOSE j \in 1..Len(parts) :
                      Truthy(parts[j]) /\ \A k \in 1..(j - 1) : ~Truthy(parts[k])]
         ELSE utterance

\* for part_data in parts: a non-empty text replaces the utterance
RECURSIVE LastPartText(_, _, _)
LastPartText(parts, i, utterance) ==
    IF i > Len(parts) THEN utterance
    ELSE LastPartText(parts, i + 1, IF Truthy(parts[i]) THEN parts[i] ELSE utterance)

\* a faulty variant: the exception of the runtime is passed on
ExceptRunFailure_Propagates(prefix, cause, utterance, consumed) ==
    [TurnReturn(None, None, consumed, 1) EXCEPT !.raised = TRUE]

\* except Exception as e_run: the error names the cause, the utterance stays
ExceptRunFailure(prefix, cause, utterance, consumed) ==
    TurnReturn(utterance, prefix \o cause, consumed, 1)

\* the body of `async for event_obj in runner.run_async(...)`, from event i on
RECURSIVE ConsumeEvents(_, _, _)
ConsumeEvents(stream, i, utterance) ==
    IF i > Len(stream.events)
    THEN IF stream.raises
         THEN ExceptRunFailure(<<"Agent execution failed:">>, RuntimeCause, utterance, i - 1)
         ELSE TurnReturn(utterance, None, i - 1, 1)
    ELSE LET e == stream.events[i]
             u == IF e.role = "model" /\ Len(e.parts) > 0
                  THEN LastPartText(e.parts, 1, utterance)
                  ELSE utterance
         IN  IF Truthy(e.err)
             THEN TurnReturn(u, e.err, i, 1)
             ELSE ConsumeEvents(stream, i + 1, u)

ServiceUnavailableTurn ==
    TurnReturn(<<"Server Error: ADK Session service unavailable.">>,
               <<"ADK Session service unavailable.">>, 0, 0)

\* _run_single_agent_turn
run_single_agent_turn(service_up, stream) ==
    IF ~service_up THEN ServiceUnavailableTurn
    ELSE ConsumeEvents(stream, 1, None)

(***************************************************************************)
(* The client service's turn runner (client_agent_main.py): only the final *)
(* response event of the stream is read.                                   *)
(***************************************************************************)
\* an event as the client runner reads it: is_final_response(), the text of
\* each content part (None for a part without text) and error_message
ClientEvent(final, parts, err) == [final |-> final, parts |-> parts, err |-> err]

ClientEventKinds ==
    {ClientEvent(FALSE, <<<<"Calling fetch_agent_card">>>>, None),
     ClientEvent(FALSE, <<>>, <<"RESOURCE_EXHAUSTED">>),
     ClientEvent(TRUE, <<<<"Your bus is booked.">>, <<"PNR789101500">>>>, None),
     ClientEvent(TRUE, <<EmptyStr>>, None),
     ClientEvent(TRUE, <<>>, <<"MALFORMED_FUNCTION_CALL">>),
     ClientEvent(TRUE, <<None>>, None)}

ClientEventSeqs == UNION {[1..n -> ClientEventKinds] : n \in 0..MaxEvents}

ClientStreams == [events : ClientEventSeqs, raises : BOOLEAN]

JoinTypeError == <<"sequence item 0: expected str instance, NoneType found">>

\* " ".join(text_parts).strip()
RECURSIVE JoinTexts(_, _)
JoinTexts(parts, i) ==
    IF i > Len(parts) THEN EmptyStr ELSE parts[i] \o JoinTexts(parts, i + 1)

\* the body of the client runner's `async for`, from event i on
RECURSIVE ConsumeClientEvents(_, _)
ConsumeClientEvents(stream, i) ==
    IF i > Len(stream.events)
    THEN IF stream.raises
         THEN ExceptRunFailure(<<"ClientAgent execution failed:">>, RuntimeCause, None, i - 1)
         ELSE TurnReturn(None, None, i - 1, 1)
    ELSE LET e == stream.events[i]
         IN  IF ~e.final THEN ConsumeClientEvents(stream, i + 1)
             ELSE IF \E j \in 1..Len(e.parts) : e.parts[j] = None
             THEN \* join() of a None text raises TypeError inside the try
                  ExceptRunFailure(<<"ClientAgent execution failed:">>, JoinTypeError, None, i)
             ELSE TurnReturn(IF Len(e.parts) > 0 THEN JoinTexts(e.parts, 1) ELSE None,
                             IF Truthy(e.err) THEN e.err ELSE None, i, 1)

RunnerNotInitializedTurn ==
    TurnReturn(<<"Server Error: ClientAgent Runner not initialized.">>,
               <<"ClientAgent Runner not initialized.">>, 0, 0)

\* _run_client_agent_turn_with_db_session
run_client_agent_turn_with_db_session(runner_up, stream) ==
    IF ~runner_up THEN RunnerNotInitializedTurn
    ELSE ConsumeClientEvents(stream, 1)

\* what _run_single_agent_turn can return, over every stream of the runtime
TurnResultsUp == {run_single_agent_turn(TRUE, stream) : stream \in Streams}

TurnResults(service_up) ==
    IF service_up THEN TurnResultsUp ELSE {run_single_agent_turn(FALSE, NoStream)}

(***************************************************************************)
(* get_agent_instance: the exception it raises ("none": the agent) and the *)
(* loaded_agents it leaves.                                                *)
(***************************************************************************)
get_agent_instance(loaded, modules, agent_name) ==
    IF agent_name \in loaded THEN [exc |-> "none", loaded |-> loaded]
    ELSE IF agent_name \notin AGENT_MODULE_PATHS
    THEN [exc |-> "ValueError", loaded |-> loaded]
    ELSE IF modules[agent_name] # "ok"
    THEN [exc |-> modules[agent_name], loaded |-> loaded]
    ELSE [exc |-> "none", loaded |-> loaded \cup {agent_name}]

\* booking_agent/agents/main_api.py: only the agents loaded at startup
get_agent_instance_bam(loaded, modules, agent_name) ==
    IF agent_name \in loaded THEN [exc |-> "none", loaded |-> loaded]
    ELSE [exc |-> "ValueError", loaded |-> loaded]

GetAgentInstance(api, loaded, modules, agent_name) ==
    IF api = "main_api.py" THEN get_agent_instance(loaded, modules, agent_name)
    ELSE get_agent_instance_bam(loaded, modules, agent_name)

\* lifespan of booking_agent/agents/main_api.py: every configured agent whose
\* module loads is put in loaded_agents
LoadedAtStartup(api, service_up, modules) ==
    IF api = "main_api.py" \/ ~service_up THEN {}
    ELSE {a \in AGENT_MODULE_PATHS_bam : modules[a] = "ok"}

(***************************************************************************)
(* The endpoints.  A response is the status and the fields of its body;    *)
(* `ran` tells whether the agent turn was run.                             *)
(***************************************************************************)
Response(status, session_id, utterance, error, ran) ==
    [status |-> status, session_id |-> session_id,
     final_agent_utterance |-> utterance, error_message |-> error, ran |-> ran]

AgentErrorText(exc, agent_name) ==
    CASE exc = "ValueError" -> <<"Agent">> \o agent_name \o <<"not configured.">>
      [] exc = "ImportError" -> <<"Could not import agent module">>
      [] exc = "AttributeError" -> <<"'root_agent' not found in module">>

\* the except clauses of start_agent_interaction
StartErrorStatus(exc) ==
    IF exc \in {"ValueError", "ImportError", "AttributeError", "NotImplementedError"}
    THEN 400 ELSE 500

StartErrorStatus_bam(exc) ==
    IF exc \in {"ValueError", "ImportError", "AttributeError", "NotImplementedError",
                "RuntimeError"}
    THEN 400 ELSE 500

StartErrorPrefix(status) ==
    IF status = 400 THEN <<"Could not start session:">> ELSE <<"Unexpected error:">>

\* a faulty variant: the session is created under the service's own name
StartSessionKey_FixedApp(agent_name, session_id) ==
    SessionKey(<<"ADK Agent Service">>, API_DEFAULT_USER_ID, session_id)

\* create_session(app_name=agent_name, user_id=user_id)
StartSessionKey(agent_name, session_id) ==
    SessionKey(agent_name, API_DEFAULT_USER_ID, session_id)

\* start_agent_interaction: [resp, store, loaded]; `created` is whether the
\* session service hands back a session object
start_agent_interaction(api, service_up, loaded, modules, store, agent_name, new_id, created) ==
    IF ~service_up
    THEN [resp |-> Response(503, None, None, <<"ADK Session service not available.">>, FALSE),
          store |-> store, loaded |-> loaded]
    ELSE LET g == GetAgentInstance(api, loaded, modules, agent_name)
             status(exc) == IF api = "main_api.py" THEN StartErrorStatus(exc)
                            ELSE StartErrorStatus_bam(exc)
         IN  IF g.exc # "none"
             THEN [resp |-> Response(status(g.exc), None, None,
                                     StartErrorPrefix(status(g.exc))
                                     \o AgentErrorText(g.exc, agent_name), FALSE),
                   store |-> store, loaded |-> g.loaded]
             ELSE IF ~created
             THEN [resp |-> Response(status("RuntimeError"), None, None,
                                     StartErrorPrefix(status("RuntimeError"))
                                     \o <<"ADK DatabaseSessionService 'create_session' failed.">>,
                                     FALSE),
                   store |-> store, loaded |-> g.loaded]
             ELSE [resp |-> Response(200, new_id, None, None, FALSE),
                   store |-> create_session(store, StartSessionKey(agent_name, new_id)),
                   loaded |-> g.loaded]

SessionNotFoundText(session_id, user_id, agent_name) ==
    <<"ADK Session ID">> \o session_id \o <<"not found for user">> \o user_id
    \o <<"and agent">> \o agent_name \o <<".">>

QuerySessionKey(agent_name, session_id) ==
    SessionKey(agent_name, API_DEFAULT_USER_ID, session_id)

\* a faulty variant: the session is looked up by its id alone
LookupSession_ByIdOnly(store, agent_name, session_id) ==
    {x \in store : x.key.id = session_id}

\* get_session(session_id=session_id, user_id=user_id, app_name=agent_name)
LookupSession(store, agent_name, session_id) ==
    get_session(store, QuerySessionKey(agent_name, session_id))

\* agent_query_turn_handler: [resp, store, loaded]; `turn` is what
\* _run_single_agent_turn returns if the handler gets to call it
agent_query_turn_handler(api, service_up, loaded, modules, store, agent_name, session_id, turn) ==
    IF ~service_up
    THEN [resp |-> Response(503, None, None, <<"ADK Session service not available.">>, FALSE),
          store |-> store, loaded |-> loaded]
    ELSE LET key == QuerySessionKey(agent_name, session_id)
             g == GetAgentInstance(api, loaded, modules, agent_name)
         IN  IF LookupSession(store, agent_name, session_id) = {}
             THEN \* raise ValueError, answered by `except ValueError`
                  [resp |-> Response(200, session_id, None,
                                     SessionNotFoundText(session_id, API_DEFAULT_USER_ID,
                                                         agent_name), FALSE),
                   store |-> store, loaded |-> loaded]
             ELSE IF g.exc = "ValueError"
             THEN [resp |-> Response(200, session_id, None,
                                     AgentErrorText(g.exc, agent_name), FALSE),
                   store |-> store, loaded |-> g.loaded]
             ELSE IF g.exc # "none"
             THEN [resp |-> Response(500, None, None,
                                     <<"Error processing query:">>
                                     \o AgentErrorText(g.exc, agent_name), FALSE),
                   store |-> store, loaded |-> g.loaded]
             ELSE [resp |-> Response(200, session_id, turn.final_utterance,
                                     turn.error, TRUE),
                   store |-> append_turn(store, key),
                   loaded |-> g.loaded]

(***************************************************************************)
(* The booking tools (Bus_ticket_booking_agent/agent.py,                   *)
(* Movie_ticket_booking_agent/agent.py; the same functions are served by   *)
(* booking_agent/mcpservers/booking_mcp.py).  A str argument that the code *)
(* lower-cases or rewrites is a sequence of characters; a returned dict is *)
(* a record with the keys the code puts in it.                             *)
(***************************************************************************)
MaxSeatCount == 4

ToolModules == {"agent.py", "booking_mcp.py"}

\* str.lower(), letter by letter
LowerOf ==
    "A" :> "a" @@ "B" :> "b" @@ "C" :> "c" @@ "D" :> "d" @@ "E" :> "e" @@ "F" :> "f"
    @@ "G" :> "g" @@ "H" :> "h" @@ "I" :> "i" @@ "J" :> "j" @@ "K" :> "k" @@ "L" :> "l"
    @@ "M" :> "m" @@ "N" :> "n" @@ "O" :> "o" @@ "P" :> "p" @@ "Q" :> "q" @@ "R" :> "r"
    @@ "S" :> "s" @@ "T" :> "t" @@ "U" :> "u" @@ "V" :> "v" @@ "W" :> "w" @@ "X" :> "x"
    @@ "Y" :> "y" @@ "Z" :> "z"

LowerChar(c) == IF c \in DOMAIN LowerOf THEN LowerOf[c] ELSE c

Lower(s) == [i \in 1..Len(s) |-> LowerChar(s[i])]

\* the same word with the letters at the places in `caps` in upper case
UpperChar(c) ==
    IF \E u \in DOMAIN LowerOf : LowerOf[u] = c
    THEN CHOOSE u \in DOMAIN LowerOf : LowerOf[u] = c ELSE c

Spelled(word, caps) ==
    [i \in 1..Len(word) |-> IF i \in caps THEN UpperChar(word[i]) ELSE word[i]]

Spellings(word) == {Spelled(word, caps) : caps \in SUBSET (1..Len(word))}

mumbai == <<"m", "u", "m", "b", "a", "i">>
pune == <<"p", "u", "n", "e">>
delhi == <<"d", "e", "l", "h", "i">>
jaipur == <<"j", "a", "i", "p", "u", "r">>
hyderabad == <<"h", "y", "d", "e", "r", "a", "b", "a", "d">>
avengers_endgame == <<"a", "v", "e", "n", "g", "e", "r", "s", ":", " ", "e", "n", "d", "g", "a", "m", "e">>

BUS789 == <<"B", "U", "S", "7", "8", "9">>
BUS123 == <<"B", "U", "S", "1", "2", "3">>
BUS456 == <<"B", "U", "S", "4", "5", "6">>

\* a faulty variant: the place name is compared as given
PlaceIs_Exact(given, literal) == given = literal

\* origin.lower() == "mumbai"
PlaceIs(given, literal) == Lower(given) = literal

Bus(bus_id, operator_name, departure_time, arrival_time, price_per_seat, available_seats) ==
    [bus_id |-> bus_id, operator_name |-> operator_name,
     departure_time |-> departure_time, arrival_time |-> arrival_time,
     price_per_seat |-> price_per_seat, available_seats |-> available_seats]

find_available_buses(origin, destination, travel_date) ==
    IF PlaceIs(origin, mumbai) /\ PlaceIs(destination, pune) /\ travel_date = "2025-07-20"
    THEN [status |-> "success",
          buses |-> <<Bus(BUS789, "Red Travels", "09:00", "13:00", 500, 15),
                      Bus(BUS123, "BlueLine Express", "11:30", "15:30", 550, 10)>>]
    ELSE IF PlaceIs(origin, delhi) /\ PlaceIs(destination, jaipur)
            /\ travel_date = "2025-08-10"
    THEN [status |-> "success",
          buses |-> <<Bus(BUS456, "Green Ways", "07:00", "12:00", 700, 20)>>]
    ELSE [status |-> "error",
          error_message |-> <<"No buses found from", origin, "to", destination,
                              "on", travel_date>>]

\* seat_preferences if seat_preferences else 'none'
PreferencesText(seat_preferences) ==
    IF seat_preferences # "" THEN seat_preferences ELSE "none"

\* a faulty variant: three seats pass the limit
WithinSeatLimit_Three(num_seats) == num_seats <= 3

\* num_seats_to_book <= 2
WithinSeatLimit(num_seats) == num_seats <= 2

\* a faulty variant: one seat's price whatever the count
SeatsPrice_Flat(num_seats_to_book) == 500

\* total_price = num_seats_to_book * 500
SeatsPrice(num_seats_to_book) == num_seats_to_book * 500

select_bus_and_seats(bus_id, num_seats_to_book, seat_preferences) ==
    IF bus_id = BUS789 /\ WithinSeatLimit(num_seats_to_book)
    THEN LET provisional_seats ==
                 IF num_seats_to_book = 2 THEN <<"W1", "W2">> ELSE <<"W1">>
         IN  [status |-> "success",
              provisional_seats |-> provisional_seats,
              total_price |-> SeatsPrice(num_seats_to_book),
              message |-> <<ToString(num_seats_to_book), "seats", provisional_seats,
                            "provisionally held on bus", bus_id, "Preferences:",
                            PreferencesText(seat_preferences)>>]
    ELSE IF bus_id = BUS456 /\ num_seats_to_book = 1
    THEN [status |-> "success",
          provisional_seats |-> <<"F3">>,
          total_price |-> 700,
          message |-> <<"1 seat (F3) provisionally held on bus", bus_id,
                        "Preferences:", PreferencesText(seat_preferences)>>]
    ELSE [status |-> "error",
          error_message |-> <<"Could not select", ToString(num_seats_to_book), "seats on bus",
                              bus_id>>]

\* bus_id.replace('BUS', ''): every occurrence, left to right
RECURSIVE RemoveBUS(_)
RemoveBUS(s) ==
    IF Len(s) = 0 THEN s
    ELSE IF Len(s) >= 3 /\ SubSeq(s, 1, 3) = <<"B", "U", "S">>
    THEN RemoveBUS(SubSeq(s, 4, Len(s)))
    ELSE <<s[1]>> \o RemoveBUS(Tail(s))

DigitChars == <<"0", "1", "2", "3", "4", "5", "6", "7", "8", "9">>

TwoDigits(n) == <<DigitChars[(n \div 10) + 1], DigitChars[(n % 10) + 1]>>

\* datetime.datetime.now().strftime('%H%M%S')
HHMMSS(now) == TwoDigits(now.hour) \o TwoDigits(now.minute) \o TwoDigits(now.second)

confirm_bus_booking(bus_id, passenger_name, passenger_contact, seats_booked, now) ==
    IF passenger_name # "" /\ passenger_contact # "" /\ seats_booked # <<>>
    THEN LET pnr_number == <<"P", "N", "R">> \o RemoveBUS(bus_id) \o HHMMSS(now)
         IN  [status |-> "success",
              pnr_number |-> pnr_number,
              message |-> <<"Booking confirmed for", passenger_name, "on bus", bus_id,
                            "for seats", seats_booked, "PNR:", pnr_number,
                            "Contact:", passenger_contact>>]
    ELSE [status |-> "error",
          error_message |-> <<"Booking confirmation failed. Missing passenger details or seats.">>]

find_movie_showtimes(movie, location, date) ==
    IF PlaceIs(movie, avengers_endgame) /\ PlaceIs(location, hyderabad)
       /\ date = "2025-05-15"
    THEN [status |-> "success", showtimes |-> <<"14:00", "17:30", "21:00">>]
    ELSE [status |-> "error",
          error_message |-> <<"No showtimes found for", movie, "in", location,
                              "on", date>>]

select_seats(showtime, num_seats, preferences) ==
    IF WithinSeatLimit(num_seats)
    THEN LET selected_seats_list == IF num_seats = 2 THEN <<"A5", "A6">> ELSE <<"B3">>
         IN  [status |-> "success",
              seats |-> selected_seats_list,
              message |-> <<"Selected", ToString(num_seats), "seats", selected_seats_list, "for",
                            showtime, "preferences:", PreferencesText(preferences)>>]
    ELSE [status |-> "error",
          error_message |-> <<"Could not select", ToString(num_seats), "seats for", showtime,
                              "Maximum 2 seats allowed in this demo.">>]

\* booking_id: "BOOKING12345" in the agent modules, a timestamp in booking_mcp.py
BookingId(module, now) ==
    IF module = "agent.py" THEN <<"BOOKING12345">>
    ELSE <<"MOVIE_BOOKING_">> \o now.date \o HHMMSS(now)

confirm_booking(module, movie, showtime, seats, now) ==
    [status |-> "success",
     booking_id |-> BookingId(module, now),
     confirmation_message |-> <<"Your booking for", movie, "at", showtime, "in seats",
                                seats, "is confirmed. Your booking ID is",
                                BookingId(module, now)>>]

(***************************************************************************)
(* What the language model may pass to a booking tool, and the clock.      *)
(***************************************************************************)
inception == <<"i", "n", "c", "e", "p", "t", "i", "o", "n">>

Origins == Spellings(mumbai) \cup {delhi, Spelled(delhi, {1}), pune}

Destinations == Spellings(pune) \cup {jaipur, Spelled(jaipur, {1}), mumbai}

TravelDates == {"2025-07-20", "2025-08-10", "2025-07-21", "20-07-2025"}

BusIds ==
    {BUS789, BUS123, BUS456, Lower(BUS789), <<"V", "O", "L", "V", "O", "1", "2">>, <<"B", "U", "S", "B", "U", "S", "7">>,
     <<"7", "8", "9">>, <<>>}

SeatCounts == (-1)..MaxSeatCount

SeatPreferences == {"", "window"}

PassengerNames == {"", "Asha Rao"}

PassengerContacts == {"", "9876543210"}

SeatLists == {<<>>, <<"W1">>, <<"W1", "W2">>, <<"F3">>, <<"B3">>, <<"A5", "A6">>}

Clocks ==
    {[date |-> <<"20250720">>, hour |-> h, minute |-> m, second |-> sec] :
        h \in {0, 9, 23}, m \in {5, 59}, sec \in {0, 47}}

Movies == {avengers_endgame, Spelled(avengers_endgame, {1, 11}), inception}

Locations ==
    {hyderabad, Spelled(hyderabad, {1}), Spelled(hyderabad, 1..Len(hyderabad)), mumbai}

ShowDates == {"2025-05-15", "2025-05-16"}

Showtimes == {"14:00", "17:30", "21:00", "03:00"}

(***************************************************************************)
(* The agent cards of booking_agent/agents/main_api.py.  A url is its      *)
(* origin followed by the segments of its path.                            *)
(***************************************************************************)
CardOrigins ==
    {"http://localhost:8001", "http://127.0.0.1:8001", "http://localhost:8000",
     "http://agents.internal", "https://booking.example.org"}

CardPathPrefixes ==
    {<<>>, <<"bus_booking_agent">>, <<"movie_ticket_agent">>,
     <<"movie_booking_agent">>, <<"agents">>, <<"api", "v1">>}

\* the MAIN_API_BASE_URL setting: unset, or a url
MainApiBaseUrlSettings ==
    {None} \cup {<<o>> \o p : o \in CardOrigins, p \in CardPathPrefixes}

\* os.getenv(name, default)
GetEnv(setting, default) == IF setting = None THEN default ELSE setting

AgentCard(agent_name, execute_task_url) ==
    [agent_name |-> agent_name, execute_task_url |-> execute_task_url]

BUS_BOOKING_AGENT_CARD(setting) ==
    AgentCard(<<"bus_booking_agent">>,
              GetEnv(setting, <<"http://localhost:8001", "bus_booking_agent">>)
              \o <<"query">>)

MOVIE_TICKET_AGENT_CARD(setting) ==
    AgentCard(<<"movie_ticket_agent">>,
              GetEnv(setting, <<"http://localhost:8001", "movie_ticket_agent">>)
              \o <<"query">>)

\* the discovery routes
AgentCardPaths ==
    {"/movie_booking_agent/.well-known/agent-card",
     "/bus_booking_agent/.well-known/agent-card"}

get_movie_ticket_agent_card(setting) == MOVIE_TICKET_AGENT_CARD(setting)

get_bus_agent_card(setting) == BUS_BOOKING_AGENT_CARD(setting)

\* the route POST /{agent_name_in_path}/query: a path of two segments, the
\* second of them "query"
QueryRoute(url) ==
    IF Len(url) = 3 /\ url[3] = "query"
    THEN [matched |-> TRUE, agent_name_in_path |-> <<url[2]>>]
    ELSE [matched |-> FALSE, agent_name_in_path |-> None]

(***************************************************************************)
(* The template service (gen_agent/booking_agent_template): a registry of  *)
(* agent instances by session id.                                          *)
(***************************************************************************)
MaxTemplateRequests == 4

\* the agent_name of a POST /startagent body, or of a query path
TemplateAgentNames == {<<"movie_helper">>, <<"bus_helper">>}

\* the ids the in-memory session service of a new instance may hand out
TemplateSessionIds == {<<"t-1">>, <<"t-2">>, <<"t-3">>}

\* AgentTemplate.__init__: the instance keeps its name and the id of the
\* session it created
AgentTemplate(agent_name, session_id) ==
    [agent_name |-> agent_name, session_id |-> session_id]

NoInstance == AgentTemplate(None, None)

\* ACTIVE_AGENT_SESSIONS[new_agent_instance.session_id] = new_agent_instance
RegisterInstance(registry, instance) == Put(registry, instance.session_id, instance)

\* [exc, instance, registry]; `constructed` is whether AgentTemplate(...) returns
create_new_agent_session_instance(registry, agent_name, new_id, constructed) ==
    IF ~constructed
    THEN [exc |-> "Exception", instance |-> NoInstance, registry |-> registry]
    ELSE IF new_id \in DOMAIN registry
    THEN [exc |-> "ValueError", instance |-> NoInstance, registry |-> registry]
    ELSE [exc |-> "none", instance |-> AgentTemplate(agent_name, new_id),
          registry |-> RegisterInstance(registry, AgentTemplate(agent_name, new_id))]

\* ACTIVE_AGENT_SESSIONS.get(session_id)
get_agent_by_session_id(registry, session_id) ==
    IF session_id \in DOMAIN registry THEN registry[session_id] ELSE NoInstance

\* a response of the template service: its status, the session id in its
\* body, the instance whose turn was run (if one was)
TemplateResponse(status, session_id, agent) ==
    [status |-> status, session_id |-> session_id, agent |-> agent,
     ran |-> agent # NoInstance]

\* POST /startagent: [resp, registry]
initiate_agent_session(registry, agent_name, new_id, constructed) ==
    LET c == create_new_agent_session_instance(registry, agent_name, new_id,
                                               constructed)
    IN  IF c.exc = "ValueError"
        THEN [resp |-> TemplateResponse(409, None, NoInstance), registry |-> c.registry]
        ELSE IF c.exc # "none"
        THEN [resp |-> TemplateResponse(500, None, NoInstance), registry |-> c.registry]
        ELSE [resp |-> TemplateResponse(201, c.instance.session_id, NoInstance),
              registry |-> c.registry]

\* a faulty variant: the session must belong to the agent named in the path
ResolveSession_ByName(registry, agent_name, x_session_id) ==
    IF get_agent_by_session_id(registry, x_session_id).agent_name = agent_name
    THEN get_agent_by_session_id(registry, x_session_id) ELSE NoInstance

\* agent_module.get_agent_by_session_id(x_session_id); agent_name is not used
ResolveSession(registry, agent_name, x_session_id) ==
    get_agent_by_session_id(registry, x_session_id)

\* POST /{agent_name}/query; `raises` is whether call_agent_async raises
query_agent_session(registry, agent_name, x_session_id, query, raises) ==
    IF ~Truthy(x_session_id)
    THEN TemplateResponse(400, None, NoInstance)
    ELSE LET agent_instance == ResolveSession(registry, agent_name, x_session_id)
         IN  IF agent_instance = NoInstance
             THEN TemplateResponse(404, None, NoInstance)
             ELSE IF ~Truthy(query)
             THEN TemplateResponse(400, None, NoInstance)
             ELSE IF raises
             THEN TemplateResponse(500, None, agent_instance)
             ELSE TemplateResponse(200, x_session_id, agent_instance)

(***************************************************************************)
(* State.                                                                  *)
(***************************************************************************)
VARIABLES
    routerModule,               \* the module the router process runs
    AGENT_CARDS_CACHE,          \* discovery url -> card
    SPECIALIST_SESSIONS_CACHE,  \* specialist name -> session id or error text
    lastCall,                   \* the latest tool call: arguments, outcome, result
    nCalls,                     \* tool calls made so far
    okPosts,                    \* name -> session-start POSTs answered with an id
    apiModule,                  \* the module the specialist service runs
    adk_sql_session_service,    \* TRUE once the lifespan has set the session service
    agentModules,               \* agent name -> what importing its module gives
    loaded_agents,              \* names with a loaded agent instance
    sessions,                   \* the session store
    issued,                     \* (agent_name, session_id) pairs start responses returned
    lastRequest,                \* the last request served and its response
    nRequests,
    turnCall,                   \* one turn of a turn runner: its stream and what it returned
    toolCall,                   \* the last call of a booking tool and its result
    cardCall,                   \* a GET of an agent card under a MAIN_API_BASE_URL setting
    ACTIVE_AGENT_SESSIONS,      \* template service: session id -> agent instance
    templateIssued,             \* the session ids POST /startagent has returned
    templateRequest,            \* the last request of the template service and its response
    nTemplateRequests,
    inflight,                   \* router tool calls suspended at their outbound request
    finished                    \* the tool calls of concurrent turns that have returned, in order

routerVars ==
    <<routerModule, AGENT_CARDS_CACHE, SPECIALIST_SESSIONS_CACHE, lastCall,
      nCalls, okPosts>>

serviceVars ==
    <<apiModule, adk_sql_session_service, agentModules, loaded_agents, sessions,
      issued, lastRequest, nRequests>>

turnVars == <<turnCall>>

toolVars == <<toolCall>>

cardVars == <<cardCall>>

templateVars == <<ACTIVE_AGENT_SESSIONS, templateIssued, templateRequest, nTemplateRequests>>

raceVars == <<inflight, finished>>

vars == <<routerVars, serviceVars, turnVars, toolVars, cardVars, templateVars, raceVars>>

EmptyCache == [k \in {} |-> None]

NoCall ==
    [op |-> "none", key |-> None, base |-> None, url |-> None, sid |-> None,
     payload |-> NoBody, resp |-> Timeout, card |-> NonJson, text |-> None,
     raised |-> "none", reqs |-> NoRequest]

RouterInit ==
    /\ routerModule \in RouterModules
    /\ AGENT_CARDS_CACHE = EmptyCache
    /\ SPECIALIST_SESSIONS_CACHE = EmptyCache
    /\ lastCall = NoCall
    /\ nCalls = 0
    /\ okPosts = [n \in SpecialistNames |-> 0]

\* a tool call of the router agent: fetch_agent_card(url)
FetchAgentCard ==
    \E url \in DiscoveryUrls : \E resp \in CardResponses(url) :
        LET r == RouterFetch(routerModule, AGENT_CARDS_CACHE, url, resp)
        IN  /\ nCalls < MaxCalls
            /\ AGENT_CARDS_CACHE' = r.cards
            /\ lastCall' = [NoCall EXCEPT !.op = "fetch_agent_card", !.key = url,
                               !.resp = resp, !.card = r.card,
                               !.raised = r.raised, !.reqs = r.reqs]
            /\ nCalls' = nCalls + 1
            /\ UNCHANGED <<routerModule, SPECIALIST_SESSIONS_CACHE, okPosts>>
            /\ UNCHANGED <<serviceVars, turnVars, toolVars, cardVars, templateVars, raceVars>>

\* a tool call: start_session_with_specialist(name, base)
StartSessionWithSpecialist ==
    \E name \in SpecialistNames, base \in BaseUrls :
      \E resp \in OutcomesAt(StartSessionUrl(base), StartResponses) :
        LET r == RouterStart(routerModule, SPECIALIST_SESSIONS_CACHE, name, base, resp)
        IN  /\ nCalls < MaxCalls
            /\ SPECIALIST_SESSIONS_CACHE' = r.sessions
            /\ lastCall' = [NoCall EXCEPT !.op = "start_session_with_specialist",
                               !.key = name, !.base = base, !.resp = resp,
                               !.text = r.text, !.raised = r.raised,
                               !.reqs = r.reqs]
            /\ nCalls' = nCalls + 1
            /\ okPosts' = IF r.reqs # NoRequest /\ r.raised = "none"
                             /\ ~StartsWithError(r.text)
                          THEN [okPosts EXCEPT ![name] = @ + 1]
                          ELSE okPosts
            /\ UNCHANGED <<routerModule, AGENT_CARDS_CACHE>>
            /\ UNCHANGED <<serviceVars, turnVars, toolVars, cardVars, templateVars, raceVars>>

\* The session ids the router holds for a specialist when it delegates: what
\* the session-acquire step just returned for it, and what is cached for it.
HeldSessions(name) ==
    (IF lastCall.op = "start_session_with_specialist" /\ lastCall.key = name
        /\ lastCall.raised = "none"
     THEN {lastCall.text} ELSE {})
    \cup (IF name \in DOMAIN SPECIALIST_SESSIONS_CACHE
          THEN {SPECIALIST_SESSIONS_CACHE[name]} ELSE {})

\* a tool call: delegate_task_with_session(name, url, sid, payload)
DelegateTaskWithSession ==
    \E name \in SpecialistNames, payload \in Payloads, resp \in DelegateResponses :
      \E sid \in HeldSessions(name) :
        LET r == RouterDelegate(routerModule, name, ExecuteUrl(name), sid,
                                payload, resp)
        IN  /\ nCalls < MaxCalls
            /\ lastCall' = [NoCall EXCEPT !.op = "delegate_task_with_session",
                               !.key = name, !.url = ExecuteUrl(name),
                               !.sid = sid, !.payload = payload, !.resp = resp,
                               !.text = r.text, !.raised = r.raised,
                               !.reqs = r.reqs]
            /\ nCalls' = nCalls + 1
            /\ UNCHANGED <<routerModule, AGENT_CARDS_CACHE,
                           SPECIALIST_SESSIONS_CACHE, okPosts>>
            /\ UNCHANGED <<serviceVars, turnVars, toolVars, cardVars, templateVars, raceVars>>

RouterNext ==
    \/ FetchAgentCard
    \/ StartSessionWithSpecialist
    \/ DelegateTaskWithSession

(***************************************************************************)
(* The router's tools called from concurrent turns.  The router service    *)
(* runs every turn on one event loop: a tool runs without interruption up  *)
(* to its `await client.get/post`, and again from the response to its      *)
(* return.  The caches are module globals shared by all turns.             *)
(***************************************************************************)
MaxRacers == 2

\* the sessions of POST /client/query whose turns call the tools
RouterSessions == {<<"client-session-1">>, <<"client-session-2">>}

ToolCallOf(id, user, op, key, base) ==
    [id |-> id, user |-> user, op |-> op, key |-> key, base |-> base]

\* a call that has returned: what it returned and whether it made a request
ReturnedCall(call, r) ==
    [id |-> call.id, user |-> call.user, op |-> call.op, key |-> call.key,
     base |-> call.base, card |-> r.card, text |-> r.text, raised |-> r.raised,
     asked |-> r.reqs # NoRequest]

RacesInit == inflight = {} /\ finished = <<>>

\* fetch_agent_card up to `await client.get(card_url)`, or to its return
\* when the url is cached
BeginFetchAgentCard ==
    \E user \in RouterSessions, url \in DiscoveryUrls :
        LET call == ToolCallOf(nCalls + 1, user, "fetch_agent_card", url, None)
            r == RouterFetch(routerModule, AGENT_CARDS_CACHE, url, Timeout)
        IN  /\ nCalls < MaxRacers
            /\ nCalls' = nCalls + 1
            /\ IF r.reqs = NoRequest
               THEN /\ finished' = Append(finished, ReturnedCall(call, r))
                    /\ inflight' = inflight
               ELSE /\ inflight' = inflight \cup {call}
                    /\ finished' = finished
            /\ UNCHANGED <<routerModule, AGENT_CARDS_CACHE, SPECIALIST_SESSIONS_CACHE,
                           lastCall, okPosts>>
            /\ UNCHANGED <<serviceVars, turnVars, toolVars, cardVars, templateVars>>

\* fetch_agent_card from the response of the GET to its return
EndFetchAgentCard ==
    \E call \in inflight : \E resp \in CardResponses(call.key) :
        LET r == RouterFetchAttempt(routerModule, AGENT_CARDS_CACHE, call.key, resp)
        IN  /\ call.op = "fetch_agent_card"
            /\ AGENT_CARDS_CACHE' = r.cards
            /\ inflight' = inflight \ {call}
            /\ finished' = Append(finished, ReturnedCall(call, r))
            /\ UNCHANGED <<routerModule, SPECIALIST_SESSIONS_CACHE, lastCall, nCalls,
                           okPosts>>
            /\ UNCHANGED <<serviceVars, turnVars, toolVars, cardVars, templateVars>>

\* start_session_with_specialist up to `await client.post(...)`, or to its
\* return when it makes no request
BeginStartSession ==
    \E user \in RouterSessions, name \in SpecialistNames, base \in BaseUrls :
        LET call == ToolCallOf(nCalls + 1, user, "start_session_with_specialist",
                               name, base)
            r == RouterStart(routerModule, SPECIALIST_SESSIONS_CACHE, name, base,
                             Timeout)
        IN  /\ nCalls < MaxRacers
            /\ nCalls' = nCalls + 1
            /\ IF r.reqs = NoRequest
               THEN /\ finished' = Append(finished, ReturnedCall(call, r))
                    /\ inflight' = inflight
               ELSE /\ inflight' = inflight \cup {call}
                    /\ finished' = finished
            /\ UNCHANGED <<routerModule, AGENT_CARDS_CACHE, SPECIALIST_SESSIONS_CACHE,
                           lastCall, okPosts>>
            /\ UNCHANGED <<serviceVars, turnVars, toolVars, cardVars, templateVars>>

\* start_session_with_specialist from the response of the POST to its return
EndStartSession ==
    \E call \in inflight :
      \E resp \in OutcomesAt(StartSessionUrl(call.base), StartResponses) :
        LET r == RouterStartAttempt(routerModule, SPECIALIST_SESSIONS_CACHE,
                                    call.key, call.base, resp)
        IN  /\ call.op = "start_session_with_specialist"
            /\ SPECIALIST_SESSIONS_CACHE' = r.sessions
            /\ inflight' = inflight \ {call}
            /\ finished' = Append(finished, ReturnedCall(call, r))
            /\ UNCHANGED <<routerModule, AGENT_CARDS_CACHE, lastCall, nCalls, okPosts>>
            /\ UNCHANGED <<serviceVars, turnVars, toolVars, cardVars, templateVars>>

RacesNext ==
    \/ BeginFetchAgentCard
    \/ EndFetchAgentCard
    \/ BeginStartSession
    \/ EndStartSession

NoRequestServed ==
    [op |-> "none", agent_name |-> None, session_id |-> None,
     resp |-> Response(0, None, None, None, FALSE)]

ServiceInit ==
    /\ apiModule \in ApiModules
    /\ adk_sql_session_service \in BOOLEAN
    /\ agentModules \in [ConfiguredAgents(apiModule) -> ModuleStates]
    /\ loaded_agents = LoadedAtStartup(apiModule, adk_sql_session_service, agentModules)
    /\ sessions = {}
    /\ issued = {}
    /\ lastRequest = NoRequestServed
    /\ nRequests = 0

\* POST /agents/{agent_name}/start
StartAgentInteraction ==
    \E agent_name \in AgentNames, created \in BOOLEAN :
        LET new_id == SessionIdOf(Cardinality(sessions) + 1)
            r == start_agent_interaction(apiModule, adk_sql_session_service,
                                         loaded_agents, agentModules, sessions,
                                         agent_name, new_id, created)
        IN  /\ nRequests < MaxRequests
            /\ Cardinality(sessions) < MaxSessions
            /\ sessions' = r.store
            /\ loaded_agents' = r.loaded
            /\ issued' = IF r.resp.status = 200
                         THEN issued \cup {[agent_name |-> agent_name,
                                            session_id |-> r.resp.session_id]}
                         ELSE issued
            /\ lastRequest' = [NoRequestServed EXCEPT !.op = "start",
                                  !.agent_name = agent_name, !.resp = r.resp]
            /\ nRequests' = nRequests + 1
            /\ UNCHANGED <<apiModule, adk_sql_session_service, agentModules>>
            /\ UNCHANGED <<routerVars, turnVars, toolVars, cardVars, templateVars, raceVars>>

\* the X-Session-Id values a client sends: ids it was given, and one it was not
KnownSessionIds == {x.session_id : x \in issued} \cup {<<"session-0">>}

\* POST /agents/{agent_name}/query
AgentQueryTurnHandler ==
    \E agent_name \in AgentNames, session_id \in KnownSessionIds :
      \E turn \in TurnResults(adk_sql_session_service) :
        LET r == agent_query_turn_handler(apiModule, adk_sql_session_service,
                                          loaded_agents, agentModules, sessions,
                                          agent_name, session_id, turn)
        IN  /\ nRequests < MaxRequests
            /\ sessions' = r.store
            /\ loaded_agents' = r.loaded
            /\ lastRequest' = [NoRequestServed EXCEPT !.op = "query",
                                  !.agent_name = agent_name,
                                  !.session_id = session_id, !.resp = r.resp]
            /\ nRequests' = nRequests + 1
            /\ UNCHANGED <<apiModule, adk_sql_session_service, agentModules, issued>>
            /\ UNCHANGED <<routerVars, turnVars, toolVars, cardVars, templateVars, raceVars>>

ServiceNext ==
    \/ StartAgentInteraction
    \/ AgentQueryTurnHandler

(***************************************************************************)
(* One turn of a turn runner over a stream of the runtime.                 *)
(***************************************************************************)
NoTurn ==
    [runner |-> "none", up |-> TRUE, stream |-> NoStream, done |-> FALSE,
     result |-> TurnReturn(None, None, 0, 0)]

\* a turn about to run: the runner, whether its session service / runner
\* object is set, and the stream the runtime will yield
TurnInit ==
    \/ \E up \in BOOLEAN, stream \in Streams :
          turnCall = [NoTurn EXCEPT !.runner = "_run_single_agent_turn",
                                !.up = up, !.stream = stream]
    \/ \E up \in BOOLEAN, stream \in ClientStreams :
          turnCall = [NoTurn EXCEPT !.runner = "_run_client_agent_turn_with_db_session",
                                !.up = up, !.stream = stream]

\* _run_single_agent_turn(agent_to_run, session_id, user_id, app_name, query)
RunSingleAgentTurn ==
    /\ turnCall.runner = "_run_single_agent_turn"
    /\ ~turnCall.done
    /\ turnCall' = [turnCall EXCEPT !.done = TRUE,
                            !.result = run_single_agent_turn(turnCall.up, turnCall.stream)]
    /\ UNCHANGED <<routerVars, serviceVars, toolVars, cardVars, templateVars, raceVars>>

\* _run_client_agent_turn_with_db_session(session_id, user_id, query_text)
RunClientAgentTurn ==
    /\ turnCall.runner = "_run_client_agent_turn_with_db_session"
    /\ ~turnCall.done
    /\ turnCall' = [turnCall EXCEPT !.done = TRUE,
                            !.result = run_client_agent_turn_with_db_session(
                                           turnCall.up, turnCall.stream)]
    /\ UNCHANGED <<routerVars, serviceVars, toolVars, cardVars, templateVars, raceVars>>

TurnNext ==
    \/ RunSingleAgentTurn
    \/ RunClientAgentTurn

NoToolCall == [name |-> "none"]

\* a call the language model has issued and the tool has not yet answered
PendingCall(module, name, args) ==
    [module |-> module, name |-> name, args |-> args, done |-> FALSE,
     result |-> [status |-> "pending"]]

Returned(call, result) == [call EXCEPT !.done = TRUE, !.result = result]

\* any one call of any tool, with any arguments, at any time of day
ToolsInit ==
    \E module \in ToolModules :
        \/ \E origin \in Origins, destination \in Destinations,
              travel_date \in TravelDates :
               toolCall = PendingCall(module, "find_available_buses",
                              [origin |-> origin, destination |-> destination,
                               travel_date |-> travel_date])
        \/ \E bus_id \in BusIds, num_seats_to_book \in SeatCounts,
              seat_preferences \in SeatPreferences :
               toolCall = PendingCall(module, "select_bus_and_seats",
                              [bus_id |-> bus_id,
                               num_seats_to_book |-> num_seats_to_book,
                               seat_preferences |-> seat_preferences])
        \/ \E bus_id \in BusIds, passenger_name \in PassengerNames,
              passenger_contact \in PassengerContacts, seats_booked \in SeatLists,
              now \in Clocks :
               toolCall = PendingCall(module, "confirm_bus_booking",
                              [bus_id |-> bus_id, passenger_name |-> passenger_name,
                               passenger_contact |-> passenger_contact,
                               seats_booked |-> seats_booked, now |-> now])
        \/ \E movie \in Movies, location \in Locations, date \in ShowDates :
               toolCall = PendingCall(module, "find_movie_showtimes",
                              [movie |-> movie, location |-> location, date |-> date])
        \/ \E showtime \in Showtimes, num_seats \in SeatCounts,
              preferences \in SeatPreferences :
               toolCall = PendingCall(module, "select_seats",
                              [showtime |-> showtime, num_seats |-> num_seats,
                               preferences |-> preferences])
        \/ \E movie \in Movies, showtime \in Showtimes, seats \in SeatLists,
              now \in Clocks :
               toolCall = PendingCall(module, "confirm_booking",
                              [movie |-> movie, showtime |-> showtime,
                               seats |-> seats, now |-> now])

Pending(name) == toolCall.name = name /\ ~toolCall.done

FindAvailableBuses ==
    /\ Pending("find_available_buses")
    /\ toolCall' = Returned(toolCall,
                       find_available_buses(toolCall.args.origin,
                           toolCall.args.destination, toolCall.args.travel_date))
    /\ UNCHANGED <<routerVars, serviceVars, turnVars, cardVars, templateVars, raceVars>>

SelectBusAndSeats ==
    /\ Pending("select_bus_and_seats")
    /\ toolCall' = Returned(toolCall,
                       select_bus_and_seats(toolCall.args.bus_id,
                           toolCall.args.num_seats_to_book,
                           toolCall.args.seat_preferences))
    /\ UNCHANGED <<routerVars, serviceVars, turnVars, cardVars, templateVars, raceVars>>

ConfirmBusBooking ==
    /\ Pending("confirm_bus_booking")
    /\ toolCall' = Returned(toolCall,
                       confirm_bus_booking(toolCall.args.bus_id,
                           toolCall.args.passenger_name,
                           toolCall.args.passenger_contact,
                           toolCall.args.seats_booked, toolCall.args.now))
    /\ UNCHANGED <<routerVars, serviceVars, turnVars, cardVars, templateVars, raceVars>>

FindMovieShowtimes ==
    /\ Pending("find_movie_showtimes")
    /\ toolCall' = Returned(toolCall,
                       find_movie_showtimes(toolCall.args.movie,
                           toolCall.args.location, toolCall.args.date))
    /\ UNCHANGED <<routerVars, serviceVars, turnVars, cardVars, templateVars, raceVars>>

SelectSeats ==
    /\ Pending("select_seats")
    /\ toolCall' = Returned(toolCall,
                       select_seats(toolCall.args.showtime, toolCall.args.num_seats,
                           toolCall.args.preferences))
    /\ UNCHANGED <<routerVars, serviceVars, turnVars, cardVars, templateVars, raceVars>>

ConfirmBooking ==
    /\ Pending("confirm_booking")
    /\ toolCall' = Returned(toolCall,
                       confirm_booking(toolCall.module, toolCall.args.movie,
                           toolCall.args.showtime, toolCall.args.seats,
                           toolCall.args.now))
    /\ UNCHANGED <<routerVars, serviceVars, turnVars, cardVars, templateVars, raceVars>>

ToolsNext ==
    \/ FindAvailableBuses
    \/ SelectBusAndSeats
    \/ ConfirmBusBooking
    \/ FindMovieShowtimes
    \/ SelectSeats
    \/ ConfirmBooking

NoTemplateRequest ==
    [op |-> "none", agent_name |-> None, x_session_id |-> None, query |-> None,
     raises |-> FALSE, resp |-> TemplateResponse(0, None, NoInstance)]

TemplateInit ==
    /\ ACTIVE_AGENT_SESSIONS = EmptyCache
    /\ templateIssued = {}
    /\ templateRequest = NoTemplateRequest
    /\ nTemplateRequests = 0

\* POST /startagent
InitiateAgentSession ==
    \E agent_name \in TemplateAgentNames, new_id \in TemplateSessionIds,
       constructed \in BOOLEAN :
        LET r == initiate_agent_session(ACTIVE_AGENT_SESSIONS, agent_name, new_id,
                                        constructed)
        IN  /\ nTemplateRequests < MaxTemplateRequests
            /\ ACTIVE_AGENT_SESSIONS' = r.registry
            /\ templateIssued' = IF r.resp.status = 201
                                 THEN templateIssued \cup {r.resp.session_id}
                                 ELSE templateIssued
            /\ templateRequest' = [NoTemplateRequest EXCEPT !.op = "startagent",
                                      !.agent_name = agent_name, !.resp = r.resp]
            /\ nTemplateRequests' = nTemplateRequests + 1
            /\ UNCHANGED <<routerVars, serviceVars, turnVars, toolVars, cardVars, raceVars>>

\* POST /{agent_name}/query with an X-Session-ID header, or without one
QueryAgentSession ==
    \E agent_name \in TemplateAgentNames,
       x_session_id \in TemplateSessionIds \cup {None, EmptyStr},
       query \in {EmptyStr, <<"two seats for the 17:30 show">>}, raises \in BOOLEAN :
        /\ nTemplateRequests < MaxTemplateRequests
        /\ templateRequest' =
               [op |-> "query", agent_name |-> agent_name,
                x_session_id |-> x_session_id, query |-> query, raises |-> raises,
                resp |-> query_agent_session(ACTIVE_AGENT_SESSIONS, agent_name,
                                             x_session_id, query, raises)]
        /\ nTemplateRequests' = nTemplateRequests + 1
        /\ UNCHANGED <<ACTIVE_AGENT_SESSIONS, templateIssued>>
        /\ UNCHANGED <<routerVars, serviceVars, turnVars, toolVars, cardVars, raceVars>>

TemplateNext ==
    \/ InitiateAgentSession
    \/ QueryAgentSession

NoCardCall == [path |-> "none"]

\* a discovery request about to be served, the service started under any
\* MAIN_API_BASE_URL setting
CardsInit ==
    \E setting \in MainApiBaseUrlSettings, path \in AgentCardPaths :
        cardCall = [path |-> path, MAIN_API_BASE_URL |-> setting, done |-> FALSE,
                    card |-> AgentCard(None, <<>>)]

\* GET /movie_booking_agent/.well-known/agent-card
GetMovieTicketAgentCard ==
    /\ cardCall.path = "/movie_booking_agent/.well-known/agent-card"
    /\ ~cardCall.done
    /\ cardCall' = [cardCall EXCEPT !.done = TRUE,
                       !.card = get_movie_ticket_agent_card(cardCall.MAIN_API_BASE_URL)]
    /\ UNCHANGED <<routerVars, serviceVars, turnVars, toolVars, templateVars, raceVars>>

\* GET /bus_booking_agent/.well-known/agent-card
GetBusAgentCard ==
    /\ cardCall.path = "/bus_booking_agent/.well-known/agent-card"
    /\ ~cardCall.done
    /\ cardCall' = [cardCall EXCEPT !.done = TRUE,
                       !.card = get_bus_agent_card(cardCall.MAIN_API_BASE_URL)]
    /\ UNCHANGED <<routerVars, serviceVars, turnVars, toolVars, templateVars, raceVars>>

CardsNext ==
    \/ GetMovieTicketAgentCard
    \/ GetBusAgentCard

CardsAtRest == cardCall = NoCardCall

\* the service before any request, with its session service up
ServiceAtRest ==
    /\ ServiceInit
    /\ apiModule = "main_api.py"
    /\ adk_sql_session_service
    /\ \A a \in AGENT_MODULE_PATHS : agentModules[a] = "ok"

\* the router before any tool call
RouterAtRest ==
    /\ RouterInit
    /\ routerModule = "client_booking_agent/agent.py"

\* no turn under way, no booking tool called
TurnAtRest == turnCall = NoTurn

ToolsAtRest == toolCall = NoToolCall

Init ==
    /\ RouterInit /\ ServiceInit /\ TurnAtRest /\ ToolsAtRest
    /\ CardsAtRest /\ TemplateInit /\ RacesInit

Next == RouterNext \/ ServiceNext \/ TurnNext \/ ToolsNext \/ CardsNext \/ TemplateNext
        \/ RacesNext

InitRouter ==
    /\ RouterInit /\ ServiceAtRest /\ TurnAtRest /\ ToolsAtRest
    /\ CardsAtRest /\ TemplateInit /\ RacesInit

InitService ==
    /\ RouterAtRest /\ ServiceInit /\ TurnAtRest /\ ToolsAtRest
    /\ CardsAtRest /\ TemplateInit /\ RacesInit

InitTurn ==
    /\ RouterAtRest /\ ServiceAtRest /\ TurnInit /\ ToolsAtRest
    /\ CardsAtRest /\ TemplateInit /\ RacesInit

InitCards ==
    /\ RouterAtRest /\ ServiceAtRest /\ TurnAtRest /\ ToolsAtRest
    /\ CardsInit /\ TemplateInit /\ RacesInit

InitTemplate ==
    /\ RouterAtRest /\ ServiceAtRest /\ TurnAtRest /\ ToolsAtRest
    /\ CardsAtRest /\ TemplateInit /\ RacesInit

InitTools ==
    /\ RouterAtRest /\ ServiceAtRest /\ TurnAtRest /\ ToolsInit
    /\ CardsAtRest /\ TemplateInit /\ RacesInit

\* the router's tools against any behaviour of the specialists
SpecRouter == InitRouter /\ [][RouterNext]_vars

\* the specialist service under any sequence of requests
SpecService == InitService /\ [][ServiceNext]_vars

\* a turn runner over any stream of the agent runtime
SpecTurn == InitTurn /\ [][TurnNext]_vars

\* the discovery routes under any MAIN_API_BASE_URL setting
SpecCards == InitCards /\ [][CardsNext]_vars

\* the router's tools called from concurrent turns, in every interleaving
SpecRaces == InitRouter /\ [][RacesNext]_vars

\* the template service under any sequence of requests
SpecTemplate == InitTemplate /\ [][TemplateNext]_vars

\* each booking tool answering any one call
SpecTools == InitTools /\ [][ToolsNext]_vars

Spec == Init /\ [][Next]_vars


(***************************************************************************)
(* Properties of the router's tools.                                       *)
(***************************************************************************)
\* the step just taken was a call of tool `op`
Called(op) == nCalls' = nCalls + 1 /\ lastCall'.op = op

IsErrorRecord(card) == card.f["error"] # None

\* the outcome `resp` is a 2xx response whose body is a JSON object
OkJsonObject(resp) == HttpException(resp) = "none" /\ resp.body.dict

\* C1: a call of delegate_task_with_session whose specialist_session_id begins
\* with "Error:" issues no HTTP POST and its reply is the "Cannot delegate"
\* message.
C1_NoDelegationWithErrorSession ==
    (lastCall.op = "delegate_task_with_session" /\ StartsWithError(lastCall.sid))
        => /\ lastCall.reqs = NoRequest
           /\ lastCall.raised = "none"
           /\ lastCall.text[1] = "Cannot delegate:"

\* C4: once a url is in the card cache (a successful fetch puts the card it
\* returns there), the entry is never changed or removed, and every later
\* fetch_agent_card(url) issues no request and returns that entry.
C4_CardCachedForever ==
    [][/\ \A u \in DOMAIN AGENT_CARDS_CACHE :
            /\ u \in DOMAIN AGENT_CARDS_CACHE'
            /\ AGENT_CARDS_CACHE'[u] = AGENT_CARDS_CACHE[u]
            /\ (Called("fetch_agent_card") /\ lastCall'.key = u)
                  => /\ lastCall'.reqs = NoRequest
                     /\ lastCall'.raised = "none"
                     /\ lastCall'.card = AGENT_CARDS_CACHE[u]
       /\ (Called("fetch_agent_card") /\ lastCall'.raised = "none"
           /\ ~IsErrorRecord(lastCall'.card))
              => /\ lastCall'.key \in DOMAIN AGENT_CARDS_CACHE'
                 /\ AGENT_CARDS_CACHE'[lastCall'.key] = lastCall'.card
                 /\ Len(lastCall'.reqs) <= 1
      ]_vars

\* C4 witness: a call answered from the cache, with the card an earlier call
\* fetched.
C4_Witness ==
    /\ lastCall.op = "fetch_agent_card"
    /\ lastCall.reqs = NoRequest
    /\ lastCall.card.dict
    /\ ~IsErrorRecord(lastCall.card)
    /\ AGENT_CARDS_CACHE[lastCall.key] = lastCall.card

\* C5: a fetch_agent_card call that returns an error record leaves the card
\* cache unchanged (so the next call for the url issues a request again).
C5_FailureNotCached ==
    [][(Called("fetch_agent_card") /\ IsErrorRecord(lastCall'.card))
          => AGENT_CARDS_CACHE' = AGENT_CARDS_CACHE]_vars

\* the session-start POST for `name` at `base`
IsStartPost(req, name, base) ==
    /\ req.method = "POST"
    /\ req.url = base \o <<"/start_agent_interaction/">>
    /\ req.body = [agent_name |-> name, query |-> None]

CachedSessionId(name) ==
    /\ name \in DOMAIN SPECIALIST_SESSIONS_CACHE
    /\ ~StartsWithError(SPECIALIST_SESSIONS_CACHE[name])

\* a cached non-error id is returned without a request
ReturnsCachedSession ==
    /\ lastCall'.text = SPECIALIST_SESSIONS_CACHE[lastCall'.key]
    /\ lastCall'.reqs = NoRequest
    /\ lastCall'.raised = "none"
    /\ SPECIALIST_SESSIONS_CACHE' = SPECIALIST_SESSIONS_CACHE

\* exactly one POST is made, and a session_id in the answer is returned and
\* cached under the name
PostsOnceAndCachesId ==
    /\ Len(lastCall'.reqs) = 1
    /\ IsStartPost(lastCall'.reqs[1], lastCall'.key, lastCall'.base)
    /\ (OkJsonObject(lastCall'.resp) /\ Truthy(lastCall'.resp.body.f["session_id"]))
          => /\ lastCall'.text = lastCall'.resp.body.f["session_id"]
             /\ lastCall'.key \in DOMAIN SPECIALIST_SESSIONS_CACHE'
             /\ SPECIALIST_SESSIONS_CACHE'[lastCall'.key] = lastCall'.text

\* C6 as stated: a cached non-error id is returned without a request; in every
\* other case exactly one POST is made; at most one POST per name is ever
\* answered with a session id.
C6_Original ==
    [][/\ Called("start_session_with_specialist")
            => IF CachedSessionId(lastCall'.key) THEN ReturnsCachedSession
               ELSE PostsOnceAndCachesId
       /\ \A n \in SpecialistNames : okPosts'[n] <= 1
      ]_vars

\* C6 amended: the same for a non-empty specialist_base_api_url; with an empty
\* one the agent.py modules return an "Error:" text with no request and no
\* cache write.
C6_SessionAcquire ==
    [][/\ (Called("start_session_with_specialist") /\ Truthy(lastCall'.base))
            => IF CachedSessionId(lastCall'.key) THEN ReturnsCachedSession
               ELSE PostsOnceAndCachesId
       /\ (Called("start_session_with_specialist") /\ ~Truthy(lastCall'.base)
           /\ routerModule # "booking_agent/client_booking_agent/client_agent.py")
            => /\ lastCall'.reqs = NoRequest
               /\ StartsWithError(lastCall'.text)
               /\ SPECIALIST_SESSIONS_CACHE' = SPECIALIST_SESSIONS_CACHE
       /\ \A n \in SpecialistNames : okPosts'[n] <= 1
      ]_vars

\* C6 witness: a session id obtained by a POST is cached, and the next call for
\* the name returned it without a request.
C6_Witness ==
    /\ lastCall.op = "start_session_with_specialist"
    /\ Truthy(lastCall.base)
    /\ lastCall.reqs = NoRequest
    /\ lastCall.text \in SessionIds
    /\ okPosts[lastCall.key] = 1

\* the session-start attempt failed: the POST raised, was answered outside
\* 2xx, or its body carried no session_id
StartFailed(call) ==
    /\ call.reqs # NoRequest
    /\ ~(OkJsonObject(call.resp) /\ Truthy(call.resp.body.f["session_id"]))

\* C7: a failed session-start attempt returns a text beginning with "Error:"
\* and stores that text in the session cache under the name; a later successful
\* attempt replaces a cached error by the session id.
C7_ErrorCached ==
    [][/\ (Called("start_session_with_specialist") /\ StartFailed(lastCall'))
            => /\ lastCall'.raised = "none"
               /\ StartsWithError(lastCall'.text)
               /\ lastCall'.key \in DOMAIN SPECIALIST_SESSIONS_CACHE'
               /\ SPECIALIST_SESSIONS_CACHE'[lastCall'.key] = lastCall'.text
       /\ (Called("start_session_with_specialist") /\ ~StartFailed(lastCall')
           /\ lastCall'.reqs # NoRequest
           /\ lastCall'.key \in DOMAIN SPECIALIST_SESSIONS_CACHE
           /\ StartsWithError(SPECIALIST_SESSIONS_CACHE[lastCall'.key]))
            => SPECIALIST_SESSIONS_CACHE'[lastCall'.key]
                  = lastCall'.resp.body.f["session_id"]
      ]_vars

\* C8: a delegation answered 2xx with a non-empty final_agent_utterance
\* returns that utterance unchanged, and its POST went to the execute url with
\* the payload as body and the session id in X-Session-Id.
C8_UtteranceVerbatim ==
    (/\ lastCall.op = "delegate_task_with_session"
     /\ lastCall.reqs # NoRequest
     /\ OkJsonObject(lastCall.resp)
     /\ Truthy(lastCall.resp.body.f["final_agent_utterance"]))
        => /\ lastCall.raised = "none"
           /\ lastCall.text = lastCall.resp.body.f["final_agent_utterance"]
           /\ Len(lastCall.reqs) = 1
           /\ lastCall.reqs[1] = [method |-> "POST", url |-> lastCall.url,
                                  body |-> lastCall.payload,
                                  session |-> lastCall.sid]

\* C8 witness: a delegation whose answer carried an utterance.
C8_Witness ==
    /\ lastCall.op = "delegate_task_with_session"
    /\ lastCall.reqs # NoRequest
    /\ OkJsonObject(lastCall.resp)
    /\ lastCall.text = Utterance

\* C9: a delegation answered 2xx with a non-empty error_message returns
\* "Error from <specialist>: <message>".
C9_ErrorWrapped ==
    (/\ lastCall.op = "delegate_task_with_session"
     /\ lastCall.reqs # NoRequest
     /\ OkJsonObject(lastCall.resp)
     /\ Truthy(lastCall.resp.body.f["error_message"]))
        => lastCall.text = <<"Error from">> \o lastCall.key \o <<":">>
                           \o lastCall.resp.body.f["error_message"]

\* text begins with the tokens of prefix
HasPrefix(text, prefix) ==
    Len(text) >= Len(prefix) /\ SubSeq(text, 1, Len(prefix)) = prefix

\* C10: no tool call lets an exception escape, whatever the outcome of its
\* outbound call: fetch_agent_card returns a card or an error record, the two
\* others a non-empty text, and a delegation answered with a non-2xx status
\* returns "Failed to delegate ... HTTP Error: <code>. Details: <body>".
C10_NeverRaises ==
    /\ lastCall.raised = "none"
    /\ (lastCall.op = "fetch_agent_card" /\ lastCall.reqs # NoRequest
        /\ HttpException(lastCall.resp) # "none")
          => IsErrorRecord(lastCall.card) /\ Truthy(lastCall.card.f["error"])
    /\ lastCall.op \in {"start_session_with_specialist", "delegate_task_with_session"}
          => Truthy(lastCall.text)
    /\ (lastCall.op = "start_session_with_specialist" /\ StartFailed(lastCall))
          => StartsWithError(lastCall.text)
    /\ (lastCall.op = "delegate_task_with_session" /\ lastCall.reqs # NoRequest
        /\ lastCall.resp.exc = "none" /\ RaisesForStatus(lastCall.resp))
          => HasPrefix(lastCall.text,
                       <<"Failed to delegate to">> \o lastCall.key
                       \o <<"(with session). HTTP Error:">>
                       \o StatusText(lastCall.resp.status) \o <<". Details:">>)
             /\ Len(lastCall.text) > Len(lastCall.key) + 4

\* C10 witness: a delegation answered 500 came back as the HTTP error text.
C10_Witness ==
    /\ lastCall.op = "delegate_task_with_session"
    /\ lastCall.reqs # NoRequest
    /\ lastCall.resp.exc = "none"
    /\ lastCall.resp.status = 500
    /\ lastCall.text[1] = "Failed to delegate to"


\* the call before the step was of the tool `op`
Last(op) == lastCall.op = op

\* a delegation to `name` has just ended without an utterance of the specialist
DelegationFailed(name) ==
    /\ Last("delegate_task_with_session")
    /\ lastCall.key = name
    /\ lastCall.reqs # NoRequest
    /\ \/ lastCall.resp.exc # "none"
       \/ lastCall.resp.status # 200
       \/ Truthy(lastCall.resp.body.f["error_message"])

\* a session-acquire for the specialist just delegated to, which has a
\* session id cached
AcquiresAfterDelegation ==
    /\ Last("delegate_task_with_session")
    /\ Called("start_session_with_specialist")
    /\ lastCall'.key = lastCall.key
    /\ lastCall.key \in DOMAIN SPECIALIST_SESSIONS_CACHE
    /\ ~StartsWithError(SPECIALIST_SESSIONS_CACHE[lastCall.key])

ReturnsCachedIdUnasked ==
    /\ lastCall'.text = SPECIALIST_SESSIONS_CACHE[lastCall.key]
    /\ lastCall'.reqs = NoRequest
    /\ SPECIALIST_SESSIONS_CACHE' = SPECIALIST_SESSIONS_CACHE

DelegationKeepsCaches ==
    Called("delegate_task_with_session") =>
        /\ SPECIALIST_SESSIONS_CACHE' = SPECIALIST_SESSIONS_CACHE
        /\ AGENT_CARDS_CACHE' = AGENT_CARDS_CACHE

\* C23 as stated: a delegation changes neither cache, whatever its outcome,
\* and the session-acquire that follows it for the same specialist returns
\* the cached session id without a request.
C23_Original ==
    [][/\ DelegationKeepsCaches
       /\ AcquiresAfterDelegation => ReturnsCachedIdUnasked]_vars

\* C23, amended: the same, for a session-acquire that is given a non-empty
\* base url.
C23_HandleSurvivesDelegation ==
    [][/\ DelegationKeepsCaches
       /\ (AcquiresAfterDelegation /\ Truthy(lastCall'.base)) =>
              ReturnsCachedIdUnasked]_vars

C23_Witness ==
    \E name \in SpecialistNames :
        /\ DelegationFailed(name)
        /\ name \in DOMAIN SPECIALIST_SESSIONS_CACHE
        /\ ~StartsWithError(SPECIALIST_SESSIONS_CACHE[name])
        /\ lastCall.sid = SPECIALIST_SESSIONS_CACHE[name]

(***************************************************************************)
(* Properties of the router's tools under concurrent turns.                *)
(***************************************************************************)
Finished == {finished[i] : i \in 1..Len(finished)}

\* the call returned a card, or a session id
Succeeded(c) ==
    /\ c.raised = "none"
    /\ IF c.op = "fetch_agent_card" THEN ~IsErrorRecord(c.card)
       ELSE ~StartsWithError(c.text)

SameKey(c, d) == c.op = d.op /\ c.key = d.key

SameValue(c, d) == c.card = d.card /\ c.text = d.text

\* the cache entry the call's key has
CacheHolds(c) ==
    IF c.op = "fetch_agent_card"
    THEN c.key \in DOMAIN AGENT_CARDS_CACHE /\ AGENT_CARDS_CACHE[c.key] = c.card
    ELSE /\ c.key \in DOMAIN SPECIALIST_SESSIONS_CACHE
         /\ SPECIALIST_SESSIONS_CACHE[c.key] = c.text

\* C21: calls that race on one cache key end as some sequential execution
\* of them would: those that return a value return the same one, and it is
\* the entry the cache holds once they have all returned.
C21_RacesAreSequential ==
    \A c, d \in Finished :
        (SameKey(c, d) /\ Succeeded(c) /\ Succeeded(d)) =>
            /\ SameValue(c, d)
            /\ inflight = {} => CacheHolds(c)

\* C24: two session-acquires for one specialist, made from any two router
\* sessions, return the same specialist session id.
C24_OneHandlePerSpecialist ==
    \A c, d \in Finished :
        (/\ c.op = "start_session_with_specialist" /\ SameKey(c, d)
         /\ c.user # d.user
         /\ Succeeded(c) /\ Succeeded(d)) => c.text = d.text

\* C25: a session id stored in the specialist-session cache is never
\* replaced by an "Error:" text.
C25_SessionIdNotReplacedByError ==
    [][\A name \in DOMAIN SPECIALIST_SESSIONS_CACHE :
           ~StartsWithError(SPECIALIST_SESSIONS_CACHE[name]) =>
               /\ name \in DOMAIN SPECIALIST_SESSIONS_CACHE'
               /\ ~StartsWithError(SPECIALIST_SESSIONS_CACHE'[name])]_vars

(***************************************************************************)
(* Properties of the specialist service.                                   *)
(***************************************************************************)
\* the step just taken served a request of kind `op`
Served(op) == nRequests' = nRequests + 1 /\ lastRequest'.op = op

\* the stored sessions start_agent_interaction would have made for the pair x
StoredFor(store, x) ==
    {y \in store : y.key = SessionKey(x.agent_name, API_DEFAULT_USER_ID, x.session_id)}

IsSessionNotFound(resp) ==
    /\ resp.error_message # None
    /\ HasPrefix(resp.error_message, <<"ADK Session ID">> \o resp.session_id
                                     \o <<"not found for user">>)

\* C2: every (agent_name, session_id) a start response has returned has a
\* stored session, no request removes it, and a query for that agent with that
\* session id finds the session and runs the turn in it.
C2_IssuedSessionsResolve ==
    [][/\ \A x \in issued : StoredFor(sessions, x) # {}
       /\ \A x \in issued : StoredFor(sessions', x) # {}
       /\ \A x \in issued :
            (Served("query") /\ lastRequest'.agent_name = x.agent_name
             /\ lastRequest'.session_id = x.session_id)
                => /\ lastRequest'.resp.status = 200
                   /\ lastRequest'.resp.ran
                   /\ ~IsSessionNotFound(lastRequest'.resp)
                   /\ \E y \in StoredFor(sessions, x) :
                        [y EXCEPT !.turns = @ + 1] \in sessions'
      ]_vars

\* a start response returned a session id, and a later query for the same agent
\* with that id ran a turn in the session
C2_Witness ==
    /\ lastRequest.op = "query"
    /\ [agent_name |-> lastRequest.agent_name,
        session_id |-> lastRequest.session_id] \in issued
    /\ lastRequest.resp.ran
    /\ nRequests >= 3

\* C3: a session id returned for agent A resolves on the query endpoint of A,
\* and sent to the query endpoint of any agent B # A it is answered with the
\* "not found" error_message; no turn is run and the store (every session's
\* history) is left as it was.
C3_SessionScopedToAgent ==
    [][\A x \in issued :
          /\ (/\ Served("query")
              /\ lastRequest'.session_id = x.session_id
              /\ lastRequest'.agent_name = x.agent_name)
                 => ~IsSessionNotFound(lastRequest'.resp)
          /\ (/\ Served("query")
              /\ lastRequest'.session_id = x.session_id
              /\ lastRequest'.agent_name # x.agent_name)
                 => /\ lastRequest'.resp.status = 200
                    /\ IsSessionNotFound(lastRequest'.resp)
                    /\ lastRequest'.resp.final_agent_utterance = None
                    /\ ~lastRequest'.resp.ran
                    /\ sessions' = sessions
      ]_vars

\* a session issued for one agent was queried under another, loaded, agent
C3_Witness ==
    /\ lastRequest.op = "query"
    /\ lastRequest.agent_name \in loaded_agents
    /\ \E x \in issued : /\ x.session_id = lastRequest.session_id
                         /\ x.agent_name # lastRequest.agent_name
    /\ IsSessionNotFound(lastRequest.resp)


\* what get_agent_instance makes of the agent named in the request being served
Resolved == GetAgentInstance(apiModule, loaded_agents, agentModules,
                             lastRequest'.agent_name)

\* C19: a start request is answered 503 when the session service is
\* unavailable, 400 when the agent name is unknown or its agent cannot be
\* loaded, and then no session is created; otherwise it succeeds with a new
\* session id or fails with 500.
C19_StartStatuses ==
    [][Served("start") =>
        LET resp == lastRequest'.resp
        IN  /\ ~adk_sql_session_service => resp.status = 503 /\ sessions' = sessions
            /\ (adk_sql_session_service /\ Resolved.exc # "none") =>
                   resp.status = 400 /\ sessions' = sessions
            /\ (adk_sql_session_service /\ Resolved.exc = "none") =>
                   \/ /\ resp.status = 200
                      /\ resp.session_id # None
                      /\ sessions' # sessions
                   \/ /\ resp.status = 500
                      /\ sessions' = sessions]_vars

\* C20: a query that names an unknown or unloadable agent, or that arrives
\* while the session service is unavailable, is answered 400, 404 or 503,
\* never 200.
C20_QueryFailuresAreHttpErrors ==
    [][(Served("query") /\ (~adk_sql_session_service \/ Resolved.exc # "none")) =>
           lastRequest'.resp.status \in {400, 404, 503}]_vars

(***************************************************************************)
(* Properties of the turn runners.                                         *)
(***************************************************************************)
\* a finished turn of the given runner whose runtime was started
Ran(runner) ==
    turnCall.runner = runner /\ turnCall.done /\ turnCall.up

ErrorEvents(events) == {i \in 1..Len(events) : Truthy(events[i].err)}

\* the number of events up to and including the first that carries an error
UpToFirstError(events) ==
    IF ErrorEvents(events) = {} THEN Len(events)
    ELSE CHOOSE i \in ErrorEvents(events) : \A k \in ErrorEvents(events) : i <= k

\* the places <<event, part>> of the non-empty model-authored texts among the
\* first n events
ModelTexts(events, n) ==
    {p \in UNION {{<<i, j>> : j \in 1..Len(events[i].parts)} : i \in 1..n} :
        events[p[1]].role = "model" /\ Truthy(events[p[1]].parts[p[2]])}

Later(p, q) == p[1] > q[1] \/ (p[1] = q[1] /\ p[2] >= q[2])

\* the last of these texts, None when there is none
LastModelText(events, n) ==
    IF ModelTexts(events, n) = {} THEN None
    ELSE LET p == CHOOSE x \in ModelTexts(events, n) :
                     \A y \in ModelTexts(events, n) : Later(x, y)
         IN  events[p[1]].parts[p[2]]

\* C11: _run_single_agent_turn takes the events in order up to and including
\* the first that carries an error, whose error it returns; the utterance it
\* returns is the last non-empty model-authored text among the events taken,
\* so text of events after the error event never reaches it.
C11_LastModelTextWins ==
    Ran("_run_single_agent_turn") =>
        LET events == turnCall.stream.events
            n == UpToFirstError(events)
        IN  /\ turnCall.result.consumed = n
            /\ turnCall.result.final_utterance = LastModelText(events, n)
            /\ ErrorEvents(events) # {} => turnCall.result.error = events[n].err

\* an error event with text, followed by an event with text: the turn stopped
\* at the first and kept its text
C11_Witness ==
    /\ Ran("_run_single_agent_turn")
    /\ Len(turnCall.stream.events) = 2
    /\ Truthy(turnCall.stream.events[1].err)
    /\ ModelTexts(turnCall.stream.events, 2) \ ModelTexts(turnCall.stream.events, 1) # {}
    /\ turnCall.result.final_utterance = <<"Partial answer">>
    /\ turnCall.result.consumed = 1

\* the runtime raised while the runner was still reading the stream
RaisedMidStream ==
    /\ turnCall.stream.raises
    /\ \A i \in 1..Len(turnCall.stream.events) :
          IF turnCall.runner = "_run_single_agent_turn"
          THEN ~Truthy(turnCall.stream.events[i].err)
          ELSE ~turnCall.stream.events[i].final

\* C12: when the runtime raises in the middle of the stream, the turn runner
\* returns (it does not raise) with error "<...> execution failed: <cause>",
\* the utterance captured before the exception (None if none was), and the
\* runtime started once.
C12_RuntimeExceptionCaught ==
    /\ (Ran("_run_single_agent_turn") /\ RaisedMidStream)
          => /\ ~turnCall.result.raised
             /\ turnCall.result.error = <<"Agent execution failed:">> \o RuntimeCause
             /\ turnCall.result.final_utterance
                   = LastModelText(turnCall.stream.events, Len(turnCall.stream.events))
             /\ turnCall.result.runs = 1
    /\ (Ran("_run_client_agent_turn_with_db_session") /\ RaisedMidStream)
          => /\ ~turnCall.result.raised
             /\ turnCall.result.error
                   = <<"ClientAgent execution failed:">> \o RuntimeCause
             /\ turnCall.result.final_utterance = None
             /\ turnCall.result.runs = 1

\* the runtime raised after a text event: the error is returned with the text
C12_Witness ==
    /\ Ran("_run_single_agent_turn")
    /\ RaisedMidStream
    /\ turnCall.result.final_utterance = <<"Your booking is confirmed.">>
    /\ turnCall.result.error[1] = "Agent execution failed:"

\* C13: every query answered 200 carries a non-empty final utterance or a
\* non-empty error_message.
C13_AlwaysExplains ==
    (lastRequest.op = "query" /\ lastRequest.resp.status = 200)
        => \/ Truthy(lastRequest.resp.final_agent_utterance)
           \/ Truthy(lastRequest.resp.error_message)


(***************************************************************************)
(* Properties of the booking tools.                                        *)
(***************************************************************************)
Answered(name) == toolCall.name = name /\ toolCall.done

AnsweredAny == toolCall.name # "none" /\ toolCall.done

\* the literals the tools are written around
OfferedRoute(origin, destination, travel_date) ==
    \/ origin \in Spellings(mumbai) /\ destination \in Spellings(pune)
       /\ travel_date = "2025-07-20"
    \/ origin \in Spellings(delhi) /\ destination \in Spellings(jaipur)
       /\ travel_date = "2025-08-10"

OfferedBusIds == {BUS789, BUS123, BUS456}

OfferedShowtimes == {"14:00", "17:30", "21:00"}

SupportedSeatCounts == {1, 2}

InsideLiterals ==
    LET a == toolCall.args
    IN  CASE toolCall.name = "find_available_buses" ->
                 OfferedRoute(a.origin, a.destination, a.travel_date)
          [] toolCall.name = "select_bus_and_seats" ->
                 a.bus_id \in OfferedBusIds /\ a.num_seats_to_book \in SupportedSeatCounts
          [] toolCall.name = "confirm_bus_booking" -> a.bus_id \in OfferedBusIds
          [] toolCall.name = "find_movie_showtimes" ->
                 /\ a.movie \in Spellings(avengers_endgame)
                 /\ a.location \in Spellings(hyderabad)
                 /\ a.date = "2025-05-15"
          [] toolCall.name = "select_seats" ->
                 a.showtime \in OfferedShowtimes /\ a.num_seats \in SupportedSeatCounts
          [] toolCall.name = "confirm_booking" ->
                 a.movie \in Spellings(avengers_endgame) /\ a.showtime \in OfferedShowtimes

\* C14: a tool called with an input outside its hard-coded literals (unknown
\* route or date, unknown bus id, unknown showtime, a seat count other than
\* 1 or 2) answers with the error variant, never with success.
C14_OutsideLiteralsIsError ==
    (AnsweredAny /\ ~InsideLiterals) => toolCall.result.status = "error"

\* C15: whatever the seat preferences, BUS789 with 2 seats gives W1, W2 for
\* 1000, with 1 seat gives W1 for 500, and with 3 seats gives the error
\* variant.
C15_Bus789Seats ==
    (Answered("select_bus_and_seats") /\ toolCall.args.bus_id = BUS789) =>
        LET n == toolCall.args.num_seats_to_book
            r == toolCall.result
        IN  /\ n = 2 => /\ r.status = "success"
                        /\ r.provisional_seats = <<"W1", "W2">>
                        /\ r.total_price = 1000
            /\ n = 1 => /\ r.status = "success"
                        /\ r.provisional_seats = <<"W1">>
                        /\ r.total_price = 500
            /\ n = 3 => r.status = "error"

C15_Witness ==
    /\ Answered("select_bus_and_seats")
    /\ toolCall.args.bus_id = BUS789
    /\ toolCall.args.num_seats_to_book = 2
    /\ toolCall.args.seat_preferences = "window"
    /\ toolCall.result.status = "success"
    /\ toolCall.result.total_price = 1000

\* C16: Mumbai to Pune on 2025-07-20, in any upper/lower-case spelling of
\* the two names, lists exactly the two buses BUS789 and BUS123; the same
\* cities on any other date string give the error variant.
C16_MumbaiPune ==
    (/\ Answered("find_available_buses")
     /\ toolCall.args.origin \in Spellings(mumbai)
     /\ toolCall.args.destination \in Spellings(pune)) =>
        LET r == toolCall.result
        IN  IF toolCall.args.travel_date = "2025-07-20"
            THEN /\ r.status = "success"
                 /\ Len(r.buses) = 2
                 /\ {r.buses[i].bus_id : i \in 1..2} = {BUS789, BUS123}
            ELSE r.status = "error"

C16_Witness ==
    /\ Answered("find_available_buses")
    /\ toolCall.args.origin = Spelled(mumbai, {1, 3, 6})
    /\ toolCall.args.destination = Spelled(pune, {1})
    /\ toolCall.args.travel_date = "2025-07-20"
    /\ toolCall.result.status = "success"
    /\ Len(toolCall.result.buses) = 2

IsDigit(c) == \E d \in 1..Len(DigitChars) : DigitChars[d] = c

\* PNR<digits><HHMMSS> at the time `now`
IsPnr(pnr, now) ==
    /\ Len(pnr) >= 9
    /\ SubSeq(pnr, 1, 3) = <<"P", "N", "R">>
    /\ \A i \in 4..Len(pnr) : IsDigit(pnr[i])
    /\ SubSeq(pnr, Len(pnr) - 5, Len(pnr)) = HHMMSS(now)

\* C17: confirm_bus_booking succeeds exactly when the passenger name, the
\* contact and a non-empty seat list are all given; the PNR of a success is
\* 'PNR', then digits only, ending in the six-digit time, whatever the bus
\* id; an error carries no PNR.
C17_PnrPattern ==
    Answered("confirm_bus_booking") =>
        LET a == toolCall.args
            r == toolCall.result
            complete == a.passenger_name # "" /\ a.passenger_contact # ""
                        /\ a.seats_booked # <<>>
        IN  /\ (r.status = "success") <=> complete
            /\ r.status = "success" => IsPnr(r.pnr_number, a.now)
            /\ r.status # "success" =>
                   r.status = "error" /\ "pnr_number" \notin DOMAIN r

\* C18: a seat selection for more than 2 seats, on any bus and for any
\* showtime, is the error variant and carries no seats and no price.
C18_SeatLimit ==
    (/\ Answered("select_bus_and_seats") \/ Answered("select_seats")
     /\ IF toolCall.name = "select_seats" THEN toolCall.args.num_seats > 2
        ELSE toolCall.args.num_seats_to_book > 2) =>
        /\ toolCall.result.status = "error"
        /\ DOMAIN toolCall.result \cap {"seats", "provisional_seats", "total_price"} = {}

C18_Witness ==
    /\ Answered("select_bus_and_seats")
    /\ toolCall.args.bus_id = BUS789
    /\ toolCall.args.num_seats_to_book = 3
    /\ toolCall.result.status = "error"

\* the buses of every successful listing, as find_available_buses returns them
OfferedBuses ==
    UNION {LET r == find_available_buses(o, d, t)
           IN  IF r.status = "success" THEN {r.buses[i] : i \in 1..Len(r.buses)}
               ELSE {} : o \in {mumbai, delhi}, d \in {pune, jaipur}, t \in TravelDates}

\* C27: each bus of a successful listing (BUS789, BUS123, BUS456) can be
\* selected with one seat, and the price charged is its listed price_per_seat.
C27_OfferedBusSelectable ==
    \A bus \in OfferedBuses :
        (/\ Answered("select_bus_and_seats")
         /\ toolCall.args.bus_id = bus.bus_id
         /\ toolCall.args.num_seats_to_book = 1) =>
            /\ toolCall.result.status = "success"
            /\ toolCall.result.total_price = bus.price_per_seat

\* C28: a successful seat selection returns as many seats as were asked
\* for, at least one, and for a bus a positive total_price equal to the
\* count times the bus's listed price per seat.
C28_SelectionConsistent ==
    /\ (Answered("select_seats") /\ toolCall.result.status = "success") =>
           /\ Len(toolCall.result.seats) = toolCall.args.num_seats
           /\ Len(toolCall.result.seats) >= 1
    /\ (Answered("select_bus_and_seats") /\ toolCall.result.status = "success") =>
           /\ Len(toolCall.result.provisional_seats) = toolCall.args.num_seats_to_book
           /\ Len(toolCall.result.provisional_seats) >= 1
           /\ toolCall.result.total_price > 0
           /\ \A bus \in OfferedBuses :
                  bus.bus_id = toolCall.args.bus_id =>
                      toolCall.result.total_price
                          = toolCall.args.num_seats_to_book * bus.price_per_seat

\* what the tool `name` of `module` returns for the arguments a
ToolResult(module, name, a) ==
    CASE name = "find_available_buses" ->
             find_available_buses(a.origin, a.destination, a.travel_date)
      [] name = "select_bus_and_seats" ->
             select_bus_and_seats(a.bus_id, a.num_seats_to_book, a.seat_preferences)
      [] name = "confirm_bus_booking" ->
             confirm_bus_booking(a.bus_id, a.passenger_name, a.passenger_contact,
                                 a.seats_booked, a.now)
      [] name = "find_movie_showtimes" ->
             find_movie_showtimes(a.movie, a.location, a.date)
      [] name = "select_seats" -> select_seats(a.showtime, a.num_seats, a.preferences)
      [] name = "confirm_booking" ->
             confirm_booking(module, a.movie, a.showtime, a.seats, a.now)

FreeText == {"message", "error_message", "confirmation_message"}

\* a result without its free-text fields
Payload(r) == [k \in DOMAIN r \ FreeText |-> r[k]]

\* C30: a tool of the MCP server and the same-named tool of the agent
\* modules return, for the same arguments at the same clock time, the same
\* status and the same fields other than free-text messages.
C30_ToolsEquivalent ==
    AnsweredAny =>
        \A module \in ToolModules :
            Payload(ToolResult(module, toolCall.name, toolCall.args))
                = Payload(toolCall.result)

(***************************************************************************)
(* Properties of the agent cards.                                          *)
(***************************************************************************)
CardServed == cardCall.path # "none" /\ cardCall.done

\* the card a service started under the same setting publishes at `path`
PublishedAt(path, setting) ==
    IF path = "/bus_booking_agent/.well-known/agent-card"
    THEN get_bus_agent_card(setting) ELSE get_movie_ticket_agent_card(setting)

\* C26: for every published card and every MAIN_API_BASE_URL setting, the
\* card's agent_name is one the publishing service starts sessions for, its
\* execute url is routed to the query handler with that same agent_name, and
\* the two cards carry different execute urls.
C26_HandshakeConsistent ==
    CardServed =>
        LET card == cardCall.card
            route == QueryRoute(card.execute_task_url)
        IN  /\ card.agent_name \in AGENT_MODULE_PATHS_bam
            /\ route.matched
            /\ route.agent_name_in_path = card.agent_name
            /\ \A path \in AgentCardPaths \ {cardCall.path} :
                   PublishedAt(path, cardCall.MAIN_API_BASE_URL).execute_task_url
                       # card.execute_task_url

(***************************************************************************)
(* Properties of the template service.                                     *)
(***************************************************************************)
TemplateServed(op) ==
    nTemplateRequests' = nTemplateRequests + 1 /\ templateRequest'.op = op

\* every id in `ids` is a key of the registry, mapped to the instance of
\* that session
Registered(registry, ids) ==
    \A sid \in ids : sid \in DOMAIN registry /\ registry[sid].session_id = sid

\* C29: every session id POST /startagent has returned is a key of the
\* registry mapped to the instance with that session id, and no request
\* removes or replaces it; a query is resolved from the X-Session-ID header
\* alone, so it is answered the same under every agent_name in the path; an
\* id that was never returned is answered 404 and no agent turn is run.
C29_RegistryStable ==
    [][/\ Registered(ACTIVE_AGENT_SESSIONS, templateIssued)
       /\ Registered(ACTIVE_AGENT_SESSIONS', templateIssued')
       /\ \A sid \in templateIssued :
              ACTIVE_AGENT_SESSIONS'[sid] = ACTIVE_AGENT_SESSIONS[sid]
       /\ TemplateServed("query") =>
              LET q == templateRequest'
              IN  /\ \A agent_name \in TemplateAgentNames :
                         query_agent_session(ACTIVE_AGENT_SESSIONS, agent_name,
                                             q.x_session_id, q.query, q.raises)
                             = q.resp
                  /\ (Truthy(q.x_session_id) /\ q.x_session_id \notin templateIssued)
                         => q.resp.status = 404 /\ ~q.resp.ran]_vars

\* a session of one agent answered under the other agent's name, with two
\* sessions registered
C29_Witness ==
    /\ templateRequest.op = "query"
    /\ templateRequest.resp.status = 200
    /\ templateRequest.resp.ran
    /\ templateRequest.resp.agent.agent_name # templateRequest.agent_name
    /\ templateRequest.resp.agent.session_id = templateRequest.x_session_id
    /\ Cardinality(templateIssued) = 2

====
